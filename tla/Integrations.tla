---------------------------- MODULE Integrations ----------------------------
(***************************************************************************)
(* Connected integrations on the SQLite backend                            *)
(* (sqlite-runtime/integrations.ts): the status row and the sealed         *)
(* credentials of each provider, the active provider of each domain, the   *)
(* provider's verification, and the rotation of the root secret.           *)
(*                                                                         *)
(* node:sqlite is synchronous: what a method does between two awaits is    *)
(* one step.  Requests interleave where they await: while a provider is    *)
(* verified or a secret is sealed or opened.  Every statement commits by   *)
(* itself, so a process that is killed may leave a prefix of them.         *)
(*                                                                         *)
(* A sealed record is the credentials, the root secret that opens it, and  *)
(* its ciphertext, which is random: a value nobody has seen before.        *)
(***************************************************************************)
EXTENDS Naturals, FiniteSets

CONSTANTS
    Providers,  \* registered providers, numbered in the order of their ids
    Domains,
    DomainOf,   \* the domain a provider is registered in
    Requests,   \* request handlers that may be running at once
    Fields,     \* credentials an admin may submit
    NoFields,
    Seals,      \* ciphertexts
    NoSeal,
    MaxRoot     \* bound: the root secrets there ever are are 1..MaxRoot

ASSUME ConstantsAssumption ==
    /\ Providers \subseteq Nat
    /\ DomainOf \in [Providers -> Domains]
    /\ NoFields \notin Fields
    /\ NoSeal \notin Seals
    /\ MaxRoot \in Nat \ {0}

VARIABLES
    status,     \* connected_integrations: provider -> status row
    secret,     \* integration_secrets: provider -> sealed record
    req,        \* what a handler awaits
    env,        \* ASTROPRESS_ROOT_SECRET, ..._PREV, and the operator's progress
    latest      \* history: the credentials last connected

vars == <<status, secret, req, env, latest>>

NoRoot   == 0
NoRow    == [state |-> "none", active |-> FALSE]
NoSecret == [seal |-> NoSeal, fields |-> NoFields, root |-> NoRoot, kid |-> "current"]
Idle     == [op |-> "idle"]

StatusRow == [state : {"none", "connected", "error"}, active : BOOLEAN]
SecretRow == [seal : Seals \cup {NoSeal}, fields : Fields \cup {NoFields},
              root : 0..MaxRoot, kid : {"current", "previous"}]
Request   == {Idle} \cup [op : {"connect", "reverify"}, provider : Providers]
                    \cup [op : {"read"}, provider : Providers, row : SecretRow]

TypeOK ==
    /\ status \in [Providers -> StatusRow]
    /\ secret \in [Providers -> SecretRow]
    /\ req \in [Requests -> Request]
    /\ env \in [current : 1..MaxRoot, previous : 0..MaxRoot, confirmed : BOOLEAN]
    /\ latest \in [Providers -> Fields \cup {NoFields}]

Reading == {c \in Requests : req[c].op = "read"}

\* The random key and nonces of sealIntegrationSecret: a new ciphertext.
SealsInUse == {secret[p].seal : p \in Providers} \cup {req[c].row.seal : c \in Reading}
NewSeal    == CHOOSE fresh \in Seals : fresh \notin SealsInUse

\* Mutant: nonces that are not random.
Sealed_deterministic(fields) ==
    [seal |-> CHOOSE seal \in Seals : TRUE, fields |-> fields, root |-> env.current,
     kid |-> "current"]

\* sealIntegrationSecret: always under the current root, always kid "current".
Sealed(fields) ==
    [seal |-> NewSeal, fields |-> fields, root |-> env.current, kid |-> "current"]

-----------------------------------------------------------------------------
(* The active provider of a domain *)

ConnectedIn(st, d) == {p \in Providers : DomainOf[p] = d /\ st[p].state = "connected"}
ActiveIn(st, d)    == {p \in ConnectedIn(st, d) : st[p].active}

\* hasActiveProvider, and SQL_MARK_ACTIVE after it.
MarkIfNone(st, p) ==
    IF ActiveIn(st, DomainOf[p]) = {} THEN [st EXCEPT ![p].active = TRUE] ELSE st

\* The provider getConnectedProvider resolves: the first active row in the
\* order of listStatuses, or the only connected one.
Resolves(st, d, p) ==
    /\ p \in ConnectedIn(st, d)
    /\ \/ p \in ActiveIn(st, d) /\ \A q \in ActiveIn(st, d) : p <= q
       \/ ActiveIn(st, d) = {} /\ ConnectedIn(st, d) = {p}

\* setActiveProvider: the domain is cleared even if the target then turns out
\* not to be connected.
SetActive(p) ==
    /\ status' = [q \in Providers |->
         IF DomainOf[q] # DomainOf[p] THEN status[q]
         ELSE [status[q] EXCEPT !.active = (q = p /\ status[p].state = "connected")]]
    /\ UNCHANGED <<secret, req, env, latest>>

\* The process is killed between the two statements, and restarts.
SetActiveKilled(p) ==
    /\ status' = [q \in Providers |->
         IF DomainOf[q] # DomainOf[p] THEN status[q] ELSE [status[q] EXCEPT !.active = FALSE]]
    /\ req' = [c \in Requests |-> Idle]
    /\ UNCHANGED <<secret, env, latest>>

\* disconnect: the secret goes with the row (ON DELETE CASCADE).
Disconnect(p) ==
    /\ status' = [status EXCEPT ![p] = NoRow]
    /\ secret' = [secret EXCEPT ![p] = NoSecret]
    /\ latest' = [latest EXCEPT ![p] = NoFields]
    /\ UNCHANGED <<req, env>>

-----------------------------------------------------------------------------
(* connectIntegration and reverifyIntegration *)

Begin(c, op, p) ==
    /\ req[c] = Idle
    /\ req' = [req EXCEPT ![c] = [op |-> op, provider |-> p]]
    /\ UNCHANGED <<status, secret, env, latest>>

\* verify() throws or times out: a connect persists nothing.
ConnectRejected(c) ==
    /\ req[c].op = "connect"
    /\ req' = [req EXCEPT ![c] = Idle]
    /\ UNCHANGED <<status, secret, env, latest>>

\* The upsert of the status row keeps is_active.
Connected(p) == [status EXCEPT ![p].state = "connected"]

\* verify() and the sealing are done: the statements of connect.
ConnectWrite(c, fields) ==
    /\ req[c].op = "connect"
    /\ \E fresh \in Seals : fresh \notin SealsInUse
    /\ LET p == req[c].provider
       IN /\ status' = MarkIfNone(Connected(p), p)
          /\ secret' = [secret EXCEPT ![p] = Sealed(fields)]
          /\ latest' = [latest EXCEPT ![p] = fields]
    /\ req' = [req EXCEPT ![c] = Idle]
    /\ UNCHANGED env

\* The process is killed between two statements of connect, and restarts.
ConnectKilled(c, fields) ==
    /\ req[c].op = "connect"
    /\ \E fresh \in Seals : fresh \notin SealsInUse
    /\ LET p == req[c].provider
       IN /\ status' = Connected(p)
          /\ \/ UNCHANGED <<secret, latest>>
             \/ /\ secret' = [secret EXCEPT ![p] = Sealed(fields)]
                /\ latest' = [latest EXCEPT ![p] = fields]
    /\ req' = [d \in Requests |-> Idle]
    /\ UNCHANGED env

\* Mutant: a provider that does not answer is paused.
Reverified_pauses(c, state) ==
    /\ req[c].op = "reverify"
    /\ status' = [status EXCEPT ![req[c].provider].state =
                     IF state = "error" THEN "paused" ELSE state]
    /\ req' = [req EXCEPT ![c] = Idle]
    /\ UNCHANGED <<secret, env, latest>>

\* updateStatus with what verify() said; a row that is gone stays gone.
Reverified(c, state) ==
    /\ req[c].op = "reverify"
    /\ LET p == req[c].provider
       IN status' = IF status[p] = NoRow THEN status
                    ELSE [status EXCEPT ![p].state = state]
    /\ req' = [req EXCEPT ![c] = Idle]
    /\ UNCHANGED <<secret, env, latest>>

-----------------------------------------------------------------------------
(* getConnectedProvider and findSecret *)

\* Up to the await of openIntegrationSecret; a row without a secret is "not
\* connected" to the caller.
BeginRead(c, p) ==
    /\ req[c] = Idle
    /\ Resolves(status, DomainOf[p], p)
    /\ secret[p] # NoSecret
    /\ req' = [req EXCEPT ![c] = [op |-> "read", provider |-> p, row |-> secret[p]]]
    /\ UNCHANGED <<status, secret, env, latest>>

\* The current root opens the record, or none does and the read throws.
EndRead(c) ==
    /\ req[c].op = "read"
    /\ env.previous = NoRoot \/ req[c].row.root # env.previous
    /\ req' = [req EXCEPT ![c] = Idle]
    /\ UNCHANGED <<status, secret, env, latest>>

\* Mutant: the UPDATE without AND ciphertext = ? AND kid = ?.
EndReadReseal_unguarded(c) ==
    /\ req[c].op = "read"
    /\ env.previous # NoRoot /\ req[c].row.root = env.previous
    /\ \E fresh \in Seals : fresh \notin SealsInUse
    /\ LET p == req[c].provider
       IN secret' = IF secret[p] = NoSecret THEN secret
                    ELSE [secret EXCEPT ![p] = Sealed(req[c].row.fields)]
    /\ req' = [req EXCEPT ![c] = Idle]
    /\ UNCHANGED <<status, env, latest>>

\* The previous root opens it: resealed under the current one, unless the row
\* has changed since it was read (SQL_RESEAL_GUARDED).
EndReadReseal(c) ==
    /\ req[c].op = "read"
    /\ env.previous # NoRoot /\ req[c].row.root = env.previous
    /\ \E fresh \in Seals : fresh \notin SealsInUse
    /\ LET p == req[c].provider
       IN secret' = IF /\ secret[p].seal = req[c].row.seal
                       /\ secret[p].kid = req[c].row.kid
                      THEN [secret EXCEPT ![p] = Sealed(req[c].row.fields)]
                      ELSE secret
    /\ req' = [req EXCEPT ![c] = Idle]
    /\ UNCHANGED <<status, env, latest>>

-----------------------------------------------------------------------------
(* Rotation of the root secret, as rotate-integration-secrets.ts tells the
   operator.  A deploy restarts the process and ends its requests. *)

\* Mutant: the new secret is deployed without ..._PREV.
Rotate_forgetsPrevious ==
    /\ env.previous = NoRoot /\ env.current < MaxRoot
    /\ env' = [env EXCEPT !.current = @ + 1]
    /\ req' = [c \in Requests |-> Idle]
    /\ UNCHANGED <<status, secret, latest>>

\* "1. Set ..._PREV=<old>, ASTROPRESS_ROOT_SECRET=<new>.  Deploy."
Rotate ==
    /\ env.previous = NoRoot /\ env.current < MaxRoot
    /\ env' = [current |-> env.current + 1, previous |-> env.current, confirmed |-> FALSE]
    /\ req' = [c \in Requests |-> Idle]
    /\ UNCHANGED <<status, secret, latest>>

\* "2. Run this script": listPreviousKidContexts returns the rows to reseal.  No
\* statement writes kid = 'previous', so it is empty and the script is done.
RotationScript ==
    /\ env.previous # NoRoot
    /\ {p \in Providers : secret[p].kid = "previous"} = {}
    /\ env' = [env EXCEPT !.confirmed = TRUE]
    /\ UNCHANGED <<status, secret, req, latest>>

\* "3. Confirm ... Unset _PREV.  Deploy."
UnsetPrevious ==
    /\ env.confirmed
    /\ env' = [env EXCEPT !.previous = NoRoot, !.confirmed = FALSE]
    /\ req' = [c \in Requests |-> Idle]
    /\ UNCHANGED <<status, secret, latest>>

-----------------------------------------------------------------------------

Init ==
    /\ status = [p \in Providers |-> NoRow]
    /\ secret = [p \in Providers |-> NoSecret]
    /\ req = [c \in Requests |-> Idle]
    /\ env = [current |-> 1, previous |-> NoRoot, confirmed |-> FALSE]
    /\ latest = [p \in Providers |-> NoFields]

Next ==
    \/ \E p \in Providers : SetActive(p) \/ SetActiveKilled(p) \/ Disconnect(p)
    \/ \E c \in Requests, p \in Providers :
         Begin(c, "connect", p) \/ Begin(c, "reverify", p) \/ BeginRead(c, p)
    \/ \E c \in Requests, fields \in Fields :
         ConnectWrite(c, fields) \/ ConnectKilled(c, fields)
    \/ \E c \in Requests, state \in {"connected", "error"} : Reverified(c, state)
    \/ \E c \in Requests : ConnectRejected(c) \/ EndRead(c) \/ EndReadReseal(c)
    \/ Rotate \/ RotationScript \/ UnsetPrevious

Spec == Init /\ [][Next]_vars

-----------------------------------------------------------------------------
(* Properties *)

\* integrations-data.ts: the guarded reseal of a read never clobbers a secret
\* that an admin connected after the read began, or revives one that was
\* disconnected: what is stored is what was connected last.
LatestCredentialsKept ==
    \A p \in Providers : secret[p].fields = latest[p]

\* A stored secret that the configured roots open stays readable whatever
\* requests do, before, during and after a rotation: only unsetting the previous
\* root can lock it out.
Opens(p) == secret[p] # NoSecret => secret[p].root \in {env.current, env.previous}

OnlyUnsetLocksOut ==
    [][\A p \in Providers : Opens(p) /\ ~Opens(p)' =>
         env.previous # NoRoot /\ env.previous' = NoRoot]_vars

\* phase-2-secret-store-design.md, 2.6: after the three steps of a rotation every
\* secret has been resealed under the new root.
RotationKeepsSecrets == \A p \in Providers : Opens(p)

\* sqlite-schema.sql: "At most one provider per domain carries is_active=1".
AtMostOneActive ==
    \A d \in Domains : Cardinality({p \in Providers : DomainOf[p] = d /\ status[p].active}) <= 1

-----------------------------------------------------------------------------
(* The inductive invariant behind LatestCredentialsKept: a ciphertext that is
   still stored for the provider it was read for has not changed its content. *)

RowShape ==
    \A p \in Providers : secret[p].seal = NoSeal \/ secret[p].root = NoRoot =>
        secret[p] = NoSecret

SealFixesFields ==
    \A c \in Requests : req[c].op = "read" =>
        /\ req[c].row.seal # NoSeal
        /\ secret[req[c].provider].seal = req[c].row.seal =>
              secret[req[c].provider] = req[c].row

SecretsInv == TypeOK /\ RowShape /\ SealFixesFields /\ LatestCredentialsKept
=============================================================================

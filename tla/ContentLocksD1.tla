--------------------------- MODULE ContentLocksD1 ---------------------------
(***************************************************************************)
(* The edit lock on Cloudflare D1 (d1-locks.ts).  The operations are those *)
(* of ContentLocks, but acquireLock awaits three statements one after the  *)
(* other, so other requests run between them and a worker may die there.   *)
(* The network and the lock indicator are those of ContentLocks and left   *)
(* out: a client here is an editor who knows what the server told it.      *)
(***************************************************************************)
EXTENDS Naturals

CONSTANTS
    Slugs, Users, Clients, UserOf,
    Tokens, NoToken, NoOne,
    TTL         \* LOCK_TTL_MINUTES

VARIABLES
    locks,      \* the table content_locks
    req,        \* the acquire a client waits for: the statement it is at
    grant,      \* what a client was last granted, and for how long
    raced       \* history: clients whose SELECT is older than the row it read

vars == <<locks, req, grant, raced>>

NoRow   == [owner |-> NoOne, token |-> NoToken, left |-> 0]
NoGrant == [slug |-> CHOOSE s \in Slugs : TRUE, token |-> NoToken, left |-> 0]
Idle    == [at |-> "idle", slug |-> CHOOSE s \in Slugs : TRUE]

TypeOK ==
    /\ locks \in [Slugs -> [owner : Users \cup {NoOne}, token : Tokens \cup {NoToken},
                            left : 0..TTL]]
    /\ req \in [Clients -> [at : {"idle", "expire", "select", "upsert"}, slug : Slugs]]
    /\ grant \in [Clients -> [slug : Slugs, token : Tokens \cup {NoToken}, left : 0..TTL]]
    /\ raced \subseteq Clients

Live(row) == row.owner # NoOne /\ row.left > 0

InUse == {locks[s].token : s \in Slugs} \cup {grant[c].token : c \in Clients}

-----------------------------------------------------------------------------
(* acquireLock *)

Begin(c, s) ==
    /\ req[c].at = "idle"
    /\ req' = [req EXCEPT ![c] = [at |-> "expire", slug |-> s]]
    /\ UNCHANGED <<locks, grant, raced>>

\* await expireStale()
ExpireStale(c) ==
    /\ req[c].at = "expire"
    /\ locks' = [s \in Slugs |-> IF Live(locks[s]) THEN locks[s] ELSE NoRow]
    /\ req' = [req EXCEPT ![c].at = "select"]
    /\ UNCHANGED <<grant, raced>>

\* Mutant: the row found is not looked at.
Select_unchecked(c) ==
    /\ req[c].at = "select"
    /\ req' = [req EXCEPT ![c].at = "upsert"]
    /\ UNCHANGED <<locks, grant, raced>>

\* await SELECT: another user's row ends the request with a conflict.
Select(c) ==
    /\ req[c].at = "select"
    /\ req' = [req EXCEPT ![c] =
                 IF locks[req[c].slug].owner \in {NoOne, UserOf[c]}
                   THEN [@ EXCEPT !.at = "upsert"] ELSE Idle]
    /\ UNCHANGED <<locks, grant, raced>>

\* await INSERT ... ON CONFLICT(slug) DO UPDATE: the row is overwritten whatever
\* has happened to it since the SELECT.
Upsert(c) ==
    LET s == req[c].slug
    IN /\ req[c].at = "upsert"
       /\ \E token \in Tokens :
            /\ token \notin InUse
            /\ \A k \in Tokens : k < token => k \in InUse  \* the first unused one
            /\ locks' = [locks EXCEPT ![s] =
                           [owner |-> UserOf[c], token |-> token, left |-> TTL]]
            /\ grant' = [grant EXCEPT ![c] = [slug |-> s, token |-> token, left |-> TTL]]
       /\ req' = [req EXCEPT ![c] = Idle]
       /\ raced' = (raced \ {c}) \cup
                      {d \in Clients \ {c} : req[d].at = "upsert" /\ req[d].slug = s}

\* The worker dies between two statements: nothing is undone, nothing answered.
Die(c) ==
    /\ req[c].at # "idle"
    /\ req' = [req EXCEPT ![c] = Idle]
    /\ raced' = raced \ {c}
    /\ UNCHANGED <<locks, grant>>

-----------------------------------------------------------------------------
(* refreshLock and releaseLock: one statement each *)

Refresh(c) ==
    LET s == grant[c].slug
    IN /\ grant[c].token # NoToken
       /\ IF locks[s].token = grant[c].token
            THEN /\ locks' = [locks EXCEPT ![s].left = TTL]
                 /\ grant' = [grant EXCEPT ![c].left = TTL]
            ELSE UNCHANGED <<locks, grant>>
       /\ UNCHANGED <<req, raced>>

Release(c) ==
    LET s == grant[c].slug
    IN /\ grant[c].token # NoToken
       /\ locks' = IF locks[s].token = grant[c].token
                     THEN [locks EXCEPT ![s] = NoRow] ELSE locks
       /\ grant' = [grant EXCEPT ![c] = NoGrant]
       /\ UNCHANGED <<req, raced>>

\* Mutant: time below zero.
Tick_noFloor ==
    /\ locks' = [s \in Slugs |-> [locks[s] EXCEPT !.left = @ - 1]]
    /\ UNCHANGED <<req, grant, raced>>

\* One minute passes for the table and for the expiresAt a client was told.
Tick ==
    /\ locks' = [s \in Slugs |-> [locks[s] EXCEPT !.left = IF @ = 0 THEN 0 ELSE @ - 1]]
    /\ grant' = [c \in Clients |-> [grant[c] EXCEPT !.left = IF @ = 0 THEN 0 ELSE @ - 1]]
    /\ UNCHANGED <<req, raced>>

Init ==
    /\ locks = [s \in Slugs |-> NoRow]
    /\ req = [c \in Clients |-> Idle]
    /\ grant = [c \in Clients |-> NoGrant]
    /\ raced = {}

Next ==
    \/ \E c \in Clients, s \in Slugs : Begin(c, s)
    \/ \E c \in Clients : ExpireStale(c) \/ Select(c) \/ Upsert(c) \/ Die(c)
    \/ \E c \in Clients : Refresh(c) \/ Release(c)
    \/ Tick

Spec == Init /\ [][Next]_vars

-----------------------------------------------------------------------------
(* Properties *)

\* Even here a running lock is taken from another user only by a request that
\* had read the row before the lock was granted: requests that do not overlap
\* exclude each other.
StealOnlyByOverlap ==
    [][\A s \in Slugs :
         /\ Live(locks[s])
         /\ locks'[s].owner \notin {NoOne, locks[s].owner}
         => \E c \in raced : req[c] = [at |-> "upsert", slug |-> s]
                             /\ locks'[s].owner = UserOf[c]]_vars
=============================================================================

------------------------------- MODULE Flash --------------------------------
(***************************************************************************)
(* Flash messages (sqlite-runtime/flash.ts, flash-d1.ts): a page puts a    *)
(* secret (a reset link, an API token) under a random id, redirects, and   *)
(* the next page consumes it.  On SQLite both are one step; on D1 their    *)
(* statements are awaited, others run between them, and a worker may be    *)
(* cut off there.                                                          *)
(***************************************************************************)
EXTENDS Naturals

CONSTANTS
    Requests,
    Ids,        \* what newFlashId returns, each once
    TTL,        \* FLASH_DEFAULT_TTL_MS
    MaxNow      \* the last time the model looks at

VARIABLES
    backend,    \* "sqlite" or "d1"
    now,        \* Date.now()
    rows,       \* admin_flash: the expiry of each id; None when there is no row
    req,        \* what each request waits for
    used,       \* history: ids handed to a put
    shown       \* history: ids whose payload was returned

vars == <<backend, now, rows, req, used, shown>>

None == MaxNow + TTL + 1
Idle == [at |-> "idle", id |-> CHOOSE i \in Ids : TRUE, time |-> None, overlap |-> FALSE]

\* time: the expiry a put is to store, or the one a consume has read.  overlap:
\* history, a consume of the same id ended since this one read the row.
TypeOK ==
    /\ backend \in {"sqlite", "d1"}
    /\ now \in 0..MaxNow
    /\ rows \in [Ids -> 0..None]
    /\ req \in [Requests -> [at : {"idle", "insert", "delete"}, id : Ids, time : 0..None,
                             overlap : BOOLEAN]]
    /\ used \subseteq Ids
    /\ shown \subseteq used

Swept == [i \in Ids |-> IF rows[i] <= now THEN None ELSE rows[i]]

Await(r, at, i, time) ==
    req' = [req EXCEPT ![r] = [at |-> at, id |-> i, time |-> time, overlap |-> FALSE]]

-----------------------------------------------------------------------------
(* put *)

\* SQLite: the expired rows are swept and the new one inserted.
Put(i) ==
    /\ backend = "sqlite"
    /\ i \notin used
    /\ used' = used \cup {i}
    /\ rows' = [Swept EXCEPT ![i] = now + TTL]
    /\ UNCHANGED <<backend, now, req, shown>>

\* D1: the sweep is awaited; the expiry counts from the clock read before it.
Sweep(r, i) ==
    /\ backend = "d1" /\ req[r].at = "idle"
    /\ i \notin used
    /\ used' = used \cup {i}
    /\ rows' = Swept
    /\ Await(r, "insert", i, now + TTL)
    /\ UNCHANGED <<backend, now, shown>>

\* D1: the INSERT.  Only after it the id is returned.
Insert(r) ==
    /\ req[r].at = "insert"
    /\ rows' = [rows EXCEPT ![req[r].id] = req[r].time]
    /\ req' = [req EXCEPT ![r] = Idle]
    /\ UNCHANGED <<backend, now, used, shown>>

-----------------------------------------------------------------------------
(* consume *)

\* The ids a browser can come back with, as often as it likes.
Known(i) == i \in used /\ \A r \in Requests : ~(req[r].at = "insert" /\ req[r].id = i)

\* The payload is returned if there was a row and it has not expired by now.
Return(i, time) == shown' = IF now < time /\ time < None THEN shown \cup {i} ELSE shown

\* Mutant: a message that is returned is left for the sweep.
Consume_keeps(i) ==
    /\ backend = "sqlite"
    /\ Known(i)
    /\ Return(i, rows[i])
    /\ UNCHANGED <<backend, now, rows, req, used>>

\* SQLite: the SELECT, the DELETE and the test of the expiry.
Consume(i) ==
    /\ backend = "sqlite"
    /\ Known(i)
    /\ rows' = [rows EXCEPT ![i] = None]
    /\ Return(i, rows[i])
    /\ UNCHANGED <<backend, now, req, used>>

\* D1: await SELECT.
Select(r, i) ==
    /\ backend = "d1" /\ req[r].at = "idle"
    /\ Known(i)
    /\ Await(r, "delete", i, rows[i])
    /\ UNCHANGED <<backend, now, rows, used, shown>>

\* D1: await DELETE, then the test with the clock of that moment.
Delete(r) ==
    /\ req[r].at = "delete"
    /\ rows' = [rows EXCEPT ![req[r].id] = None]
    /\ Return(req[r].id, req[r].time)
    /\ req' = [q \in Requests |->
                 IF q = r THEN Idle
                 ELSE IF req[q].at = "delete" /\ req[q].id = req[r].id
                        THEN [req[q] EXCEPT !.overlap = TRUE] ELSE req[q]]
    /\ UNCHANGED <<backend, now, used>>

\* The worker is cut off at an await.
Die(r) ==
    /\ req[r].at # "idle"
    /\ req' = [req EXCEPT ![r] = Idle]
    /\ UNCHANGED <<backend, now, rows, used, shown>>

Tick ==
    /\ now < MaxNow
    /\ now' = now + 1
    /\ UNCHANGED <<backend, rows, req, used, shown>>

Init ==
    /\ backend \in {"sqlite", "d1"}
    /\ now = 0
    /\ rows = [i \in Ids |-> None]
    /\ req = [r \in Requests |-> Idle]
    /\ used = {}
    /\ shown = {}

Next ==
    \/ \E i \in Ids : Put(i) \/ Consume(i)
    \/ \E r \in Requests, i \in Ids : Sweep(r, i) \/ Select(r, i)
    \/ \E r \in Requests : Insert(r) \/ Delete(r) \/ Die(r)
    \/ Tick

Spec == Init /\ [][Next]_vars

-----------------------------------------------------------------------------
(* Properties *)

\* "Delete unconditionally so a replay of the same id can never succeed": once a
\* payload was returned no request can return it again, except one that had read
\* the row on D1 before the first consume ended.
GoneOnceShown ==
    \A i \in shown :
        /\ rows[i] = None
        /\ \A r \in Requests :
             req[r].at = "delete" /\ req[r].id = i /\ req[r].time # None => req[r].overlap
=============================================================================

-------------------------------- MODULE Media --------------------------------
(***************************************************************************)
(* Uploaded media (runtime-actions-media.ts, local-media-repository-       *)
(* factory.ts, runtime-media-storage.ts): a row of media_assets and the    *)
(* objects it names, which lie in an R2 bucket or on a disk.  Rows and     *)
(* objects are written one after the other; a process or a worker may end  *)
(* between any two writes.                                                 *)
(***************************************************************************)
EXTENDS Naturals

CONSTANTS
    Ids,        \* what randomUUID returns, each once: names of objects
    NoId,
    Requests,
    MaxRebind   \* bound on deploys that add or remove the bucket

VARIABLES
    backend,    \* "sqlite" or "d1"
    bucket,     \* MEDIA_BUCKET is bound
    objects,    \* what is stored: <<"r2" or "disk", id>>
    used,       \* history: the ids given out
    rows,       \* media_assets
    req,        \* what each request on D1 waits for
    rebinds

vars == <<backend, bucket, objects, used, rows, req, rebinds>>

Places == {"r2", "disk"}

\* state: none, live, or deleted (deleted_at is set).  thumb: the variants of an image,
\* which are stored under ids of their own and named in thumbnail_url and srcset.
\* place is not in the row: it is where the object of that id was put.
Asset == [state : {"none", "live", "deleted"}, place : Places,
          thumb : Ids \cup {NoId}, thumbPlace : Places]
NoRow == [state |-> "none", place |-> "disk", thumb |-> NoId, thumbPlace |-> "disk"]

Request == [at : {"idle", "variant", "insert", "mark", "find", "remove"},
            id : Ids \cup {NoId}, place : Places,
            thumb : Ids \cup {NoId}, thumbPlace : Places]
Idle == [at |-> "idle", id |-> NoId, place |-> "disk", thumb |-> NoId, thumbPlace |-> "disk"]

TypeOK ==
    /\ backend \in {"sqlite", "d1"}
    /\ bucket \in BOOLEAN
    /\ objects \subseteq Places \X Ids
    /\ used \subseteq Ids
    /\ rows \in [Ids -> Asset]
    /\ req \in [Requests -> Request]
    /\ rebinds \in 0..MaxRebind

\* storeRuntimeMediaObject, deleteRuntimeMediaObject: the bucket if there is one now.
Here == IF bucket THEN "r2" ELSE "disk"

Row(state, q) ==
    [state |-> state, place |-> q.place, thumb |-> q.thumb, thumbPlace |-> q.thumbPlace]

-----------------------------------------------------------------------------
(* Upload *)

\* SQLite: the file, then the row.
Upload(i) ==
    /\ backend = "sqlite"
    /\ i \notin used
    /\ used' = used \cup {i}
    /\ objects' = objects \cup {<<"disk", i>>}
    /\ rows' = [rows EXCEPT ![i] = [NoRow EXCEPT !.state = "live"]]
    /\ UNCHANGED <<backend, bucket, req, rebinds>>

\* SQLite: the process ends after the file was written.
UploadKilled(i) ==
    /\ backend = "sqlite"
    /\ i \notin used
    /\ used' = used \cup {i}
    /\ objects' = objects \cup {<<"disk", i>>}
    /\ UNCHANGED <<backend, bucket, rows, req, rebinds>>

\* D1: the object is put; images go on to their variants.
Store(r, i) ==
    /\ backend = "d1" /\ req[r].at = "idle"
    /\ i \notin used
    /\ used' = used \cup {i}
    /\ objects' = objects \cup {<<Here, i>>}
    /\ \E at \in {"variant", "insert"} :
         req' = [req EXCEPT ![r] = [Idle EXCEPT !.at = at, !.id = i, !.place = Here]]
    /\ UNCHANGED <<backend, bucket, rows, rebinds>>

\* D1: a variant is put under an id of its own.  Without Sharp there is none.
StoreVariant(r, i) ==
    /\ req[r].at = "variant"
    /\ i \notin used
    /\ used' = used \cup {i}
    /\ objects' = objects \cup {<<Here, i>>}
    /\ req' = [req EXCEPT ![r] = [@ EXCEPT !.at = "insert", !.thumb = i, !.thumbPlace = Here]]
    /\ UNCHANGED <<backend, bucket, rows, rebinds>>

NoVariant(r) ==
    /\ req[r].at = "variant"
    /\ req' = [req EXCEPT ![r].at = "insert"]
    /\ UNCHANGED <<backend, bucket, objects, used, rows, rebinds>>

\* D1: INSERT INTO media_assets, with the paths of what was stored.
Insert(r) ==
    /\ req[r].at = "insert"
    /\ rows' = [rows EXCEPT ![req[r].id] = Row("live", req[r])]
    /\ req' = [req EXCEPT ![r] = Idle]
    /\ UNCHANGED <<backend, bucket, objects, used, rebinds>>

-----------------------------------------------------------------------------
(* Delete *)

\* SQLite: the row is marked, then the file is removed.
Delete(i) ==
    /\ backend = "sqlite"
    /\ rows[i].state = "live"
    /\ rows' = [rows EXCEPT ![i].state = "deleted"]
    /\ objects' = objects \ {<<"disk", i>>}
    /\ UNCHANGED <<backend, bucket, used, req, rebinds>>

\* SQLite: the process ends before the file is removed.
DeleteKilled(i) ==
    /\ backend = "sqlite"
    /\ rows[i].state = "live"
    /\ rows' = [rows EXCEPT ![i].state = "deleted"]
    /\ UNCHANGED <<backend, bucket, objects, used, req, rebinds>>

\* D1: await SELECT of a live row; await UPDATE; await SELECT of its paths; the object.
Seek(r, i) ==
    /\ backend = "d1" /\ req[r].at = "idle"
    /\ rows[i].state = "live"
    /\ req' = [req EXCEPT ![r] = [Idle EXCEPT !.at = "mark", !.id = i]]
    /\ UNCHANGED <<backend, bucket, objects, used, rows, rebinds>>

\* Mutant: the object is removed first and the row is marked with the audit.
Mark_later(r) ==
    /\ req[r].at = "mark"
    /\ req' = [req EXCEPT ![r].at = "find"]
    /\ UNCHANGED <<backend, bucket, objects, used, rows, rebinds>>

Mark(r) ==
    /\ req[r].at = "mark"
    /\ rows' = [rows EXCEPT ![req[r].id].state = "deleted"]
    /\ req' = [req EXCEPT ![r].at = "find"]
    /\ UNCHANGED <<backend, bucket, objects, used, rebinds>>

FindPaths(r) ==
    /\ req[r].at = "find"
    /\ req' = [req EXCEPT ![r].at = "remove"]
    /\ UNCHANGED <<backend, bucket, objects, used, rows, rebinds>>

\* In the place that is configured now; the variants stay.
Remove(r) ==
    /\ req[r].at = "remove"
    /\ objects' = objects \ {<<Here, req[r].id>>}
    /\ req' = [req EXCEPT ![r] = Idle]
    /\ UNCHANGED <<backend, bucket, used, rows, rebinds>>

-----------------------------------------------------------------------------
\* A call fails or the worker is cut off at an await.
Die(r) ==
    /\ req[r].at # "idle"
    /\ req' = [req EXCEPT ![r] = Idle]
    /\ UNCHANGED <<backend, bucket, objects, used, rows, rebinds>>

\* A deploy adds or removes the binding; requests of the old one may still be running.
Rebind ==
    /\ backend = "d1" /\ rebinds < MaxRebind
    /\ bucket' = ~bucket
    /\ rebinds' = rebinds + 1
    /\ UNCHANGED <<backend, objects, used, rows, req>>

Init ==
    /\ backend \in {"sqlite", "d1"}
    /\ bucket \in BOOLEAN /\ (backend = "sqlite" => ~bucket)
    /\ objects = {} /\ used = {}
    /\ rows = [i \in Ids |-> NoRow]
    /\ req = [r \in Requests |-> Idle]
    /\ rebinds = 0

Next ==
    \/ \E i \in Ids : Upload(i) \/ UploadKilled(i) \/ Delete(i) \/ DeleteKilled(i)
    \/ \E r \in Requests, i \in Ids : Store(r, i) \/ StoreVariant(r, i) \/ Seek(r, i)
    \/ \E r \in Requests : \/ NoVariant(r) \/ Insert(r)
                           \/ Mark(r) \/ FindPaths(r) \/ Remove(r) \/ Die(r)
    \/ Rebind

Spec == Init /\ [][Next]_vars

-----------------------------------------------------------------------------
(* Properties *)

\* A row that is listed names objects that are there, where they were put: whatever
\* uploads and deletes overlap, wherever they end, and whichever place is configured.
LiveRowHasFile ==
    \A i \in Ids : rows[i].state = "live" =>
        /\ <<rows[i].place, i>> \in objects
        /\ rows[i].thumb # NoId => <<rows[i].thumbPlace, rows[i].thumb>> \in objects
=============================================================================

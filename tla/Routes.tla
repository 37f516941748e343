------------------------------- MODULE Routes -------------------------------
(***************************************************************************)
(* The route registry (cms-route-registry-helpers.ts on node:sqlite, the   *)
(* runtime-route-registry modules on D1): pages, archives and system       *)
(* routes, each a group, a variant that is shown and a history of          *)
(* revisions.  Handlers write them one statement at a time.  On SQLite the *)
(* routes of the site's code are seeded again whenever a process starts    *)
(* (sqlite-bootstrap-seeders.ts); on D1 they are imported once.            *)
(***************************************************************************)
EXTENDS Naturals

CONSTANTS
    Paths,
    System,     \* paths of system routes: only their seeds write a revision
    Requests,
    MaxText     \* bound: what a route may say is one of 1..MaxText

Texts == 1..MaxText

VARIABLES
    backend,    \* "sqlite" or "d1"
    seeds,      \* the routes in the site's code
    groups,     \* cms_route_groups: who inserted the row of the canonical path
    shown,      \* cms_route_variants: path -> text; 0 when there is no row
    newest,     \* cms_route_revisions: path -> the last snapshot; 0 before there is one
    baseline,   \* paths whose revision ":seed" exists
    start,      \* the process: up, down, failed to start, or seeding the rest of todo
    req,        \* what each request does next
    torn,       \* history: paths whose text was written without its revision, or whose
                \* last revision is of a text that had been written over before
    halved      \* history: paths whose group was inserted and whose variant was not

vars == <<backend, seeds, groups, shown, newest, baseline, start, req, torn, halved>>

Idle    == [at |-> "idle", path |-> CHOOSE p \in Paths : TRUE, text |-> 0, late |-> FALSE]
Running == [at |-> "up", todo |-> {}, path |-> Idle.path]

\* late: history, another request has created the same page, or written over the same
\* text, without this one seeing it.
TypeOK ==
    /\ backend \in {"sqlite", "d1"}
    /\ seeds \in [Paths -> 0..MaxText]
    /\ groups \in [Paths -> {"none", "seed", "admin"}]
    /\ shown \in [Paths -> 0..MaxText]
    /\ newest \in [Paths -> 0..MaxText]
    /\ \A p \in Paths : newest[p] # 0 => shown[p] # 0
    /\ \A p \in Paths : shown[p] # 0 => groups[p] # "none"
    /\ baseline \subseteq System
    /\ start \in [at : {"up", "down", "failed", "next", "variant", "revision"},
                  todo : SUBSET Paths, path : Paths]
    /\ req \in [Requests -> [at : {"idle", "group", "variant", "update", "revision"},
                             path : Paths, text : 0..MaxText, late : BOOLEAN]]
    /\ torn \subseteq Paths /\ halved \subseteq Paths

\* A handler on SQLite awaits nothing from its first statement to its last.
MayRun(r) == /\ start.at = "up"
             /\ backend = "sqlite" => \A q \in Requests \ {r} : req[q].at = "idle"

At(r, at) == req[r].at = at /\ MayRun(r)

Begin(r, at, p, t) ==
    /\ At(r, "idle")
    /\ req' = [req EXCEPT ![r] = [at |-> at, path |-> p, text |-> t,
                 late |-> \E q \in Requests : req[q].at = "variant" /\ req[q].path = p]]

\* Request r goes on; those at a step in passed are late for the same path.
Overtake(r, next, passed) ==
    req' = [q \in Requests |->
              IF q = r THEN next
              ELSE IF req[q].path = req[r].path /\ req[q].at \in passed
                     THEN [req[q] EXCEPT !.late = TRUE] ELSE req[q]]

-----------------------------------------------------------------------------
(* Creating a page *)

\* Mutant: only pages are looked for.
Taken_pages(p) == shown[p] # 0 /\ p \notin System

\* isRoutePathTaken, isVariantPathTaken: a variant of any kind.
Taken(p) == shown[p] # 0

BeginCreate(r, p, t) ==
    /\ ~Taken(p)
    /\ Begin(r, "group", p, t)
    /\ UNCHANGED <<backend, seeds, groups, shown, newest, baseline, start, torn, halved>>

\* canonical_path is UNIQUE: the statement throws where there is a group.
InsertGroup(r) ==
    LET p == req[r].path
    IN /\ At(r, "group")
       /\ IF groups[p] = "none"
          THEN /\ groups' = [groups EXCEPT ![p] = "admin"]
               /\ Overtake(r, [req[r] EXCEPT !.at = "variant", !.late = FALSE], {"group"})
          ELSE /\ req' = [req EXCEPT ![r] = Idle]
               /\ UNCHANGED groups
       /\ UNCHANGED <<backend, seeds, shown, newest, baseline, start, torn, halved>>

\* The text is written; requests that wrote one before and have yet to add its
\* revision are late.
Write(r) ==
    /\ shown' = [shown EXCEPT ![req[r].path] = req[r].text]
    /\ torn' = torn \ {req[r].path}
    /\ Overtake(r, [req[r] EXCEPT !.at = "revision", !.late = FALSE], {"revision"})

InsertVariant(r) ==
    /\ At(r, "variant")
    /\ Write(r)
    /\ UNCHANGED <<backend, seeds, groups, newest, baseline, start, halved>>

-----------------------------------------------------------------------------
(* Saving a page, an archive or a system route *)

\* findStructuredRouteForUpdate and its like: the variant of the path, of the kind.
BeginSave(r, p, t) ==
    /\ shown[p] # 0
    /\ Begin(r, "update", p, t)
    /\ UNCHANGED <<backend, seeds, groups, shown, newest, baseline, start, torn, halved>>

\* Mutant: the revision is taken of what the row says by now, before it is written.
Update_revisesFirst(r) ==
    /\ At(r, "update")
    /\ newest' = [newest EXCEPT ![req[r].path] = shown[req[r].path]]
    /\ shown' = [shown EXCEPT ![req[r].path] = req[r].text]
    /\ req' = [req EXCEPT ![r] = Idle]
    /\ UNCHANGED <<backend, seeds, groups, baseline, start, torn, halved>>

\* persistStructuredRoute, SQL_UPDATE_ROUTE_VARIANT and their like.
Update(r) ==
    /\ At(r, "update")
    /\ Write(r)
    /\ UNCHANGED <<backend, seeds, groups, newest, baseline, start, halved>>

\* appendStructuredRouteRevision, SQL_INSERT_ROUTE_REVISION and their like: the last
\* statement of a save and of a creation.
Revise(r) ==
    LET p == req[r].path
    IN /\ At(r, "revision")
       /\ newest' = [newest EXCEPT ![p] = req[r].text]
       /\ torn' = IF req[r].late THEN torn \cup {p} ELSE torn \ {p}
       /\ req' = [req EXCEPT ![r] = Idle]
       /\ UNCHANGED <<backend, seeds, groups, shown, baseline, start, halved>>

\* What requests that end at their next statement leave undone.
Unrevised(rs) == {req[r].path : r \in {q \in rs : req[q].at = "revision" /\ ~req[q].late}}
Halved(rs)    == {req[r].path : r \in {q \in rs : req[q].at = "variant"}}

\* A worker on D1 is cut off between two statements.
Die(r) ==
    /\ backend = "d1" /\ req[r].at # "idle"
    /\ torn' = torn \cup Unrevised({r})
    /\ halved' = halved \cup Halved({r})
    /\ req' = [req EXCEPT ![r] = Idle]
    /\ UNCHANGED <<backend, seeds, groups, shown, newest, baseline, start>>

-----------------------------------------------------------------------------
(* Starting a process on SQLite: seedSystemRoutes, seedArchiveRoutes,      *)
(* seedMarketingRoutes                                                     *)

\* The process ends, in the middle of a handler or of its start.
Kill ==
    /\ backend = "sqlite" /\ start.at # "down"
    /\ start' = [Running EXCEPT !.at = "down"]
    /\ torn' = torn \cup Unrevised(Requests)
    /\ halved' = halved \cup Halved(Requests)
                        \cup {p \in {start.path} : start.at = "variant" /\ shown[p] = 0}
    /\ req' = [r \in Requests |-> Idle]
    /\ UNCHANGED <<backend, seeds, groups, shown, newest, baseline>>

\* The site is built with other routes.
Deploy(p, t) ==
    /\ backend = "sqlite" /\ start.at = "down"
    /\ seeds[p] # t
    /\ seeds' = [seeds EXCEPT ![p] = t]
    /\ UNCHANGED <<backend, groups, shown, newest, baseline, start, req, torn, halved>>

\* ensureDatabase: the first use in a process; after a failure, every use tries again.
Seed ==
    /\ start.at \in {"down", "failed"}
    /\ start' = [Running EXCEPT !.at = "next", !.todo = {p \in Paths : seeds[p] # 0}]
    /\ UNCHANGED <<backend, seeds, groups, shown, newest, baseline, req, torn, halved>>

\* Mutant: the row of the last start is in the way.
SeedGroup_insert(p) ==
    /\ start.at = "next" /\ p \in start.todo
    /\ IF groups[p] = "none"
       THEN /\ groups' = [groups EXCEPT ![p] = "seed"]
            /\ start' = [at |-> "variant", todo |-> start.todo \ {p}, path |-> p]
       ELSE /\ start' = [Running EXCEPT !.at = "failed"]
            /\ UNCHANGED groups
    /\ UNCHANGED <<backend, seeds, shown, newest, baseline, req, torn, halved>>

\* ON CONFLICT(id): a group of another id on the same path throws.
SeedGroup(p) ==
    /\ start.at = "next" /\ p \in start.todo
    /\ IF groups[p] # "admin"
       THEN /\ groups' = [groups EXCEPT ![p] = "seed"]
            /\ start' = [at |-> "variant", todo |-> start.todo \ {p}, path |-> p]
       ELSE /\ start' = [Running EXCEPT !.at = "failed"]
            /\ UNCHANGED groups
    /\ UNCHANGED <<backend, seeds, shown, newest, baseline, req, torn, halved>>

\* ON CONFLICT(id) DO UPDATE: what an editor saved since is written over.
SeedVariant ==
    LET p == start.path
    IN /\ start.at = "variant"
       /\ shown' = [shown EXCEPT ![p] = seeds[p]]
       /\ torn' = torn \cup {p}
       /\ halved' = halved \ {p}
       /\ start' = [start EXCEPT !.at = IF p \in System THEN "revision" ELSE "next"]
       /\ UNCHANGED <<backend, seeds, groups, newest, baseline, req>>

\* ON CONFLICT(id) DO NOTHING: the baseline stays what was seeded first.
SeedRevision ==
    LET p == start.path
    IN /\ start.at = "revision"
       /\ IF p \in baseline THEN UNCHANGED <<newest, baseline, torn>>
          ELSE /\ newest' = [newest EXCEPT ![p] = seeds[p]]
               /\ baseline' = baseline \cup {p}
               /\ torn' = torn \ {p}
       /\ start' = [start EXCEPT !.at = "next"]
       /\ UNCHANGED <<backend, seeds, groups, shown, req, halved>>

Started ==
    /\ start.at = "next" /\ start.todo = {}
    /\ start' = Running
    /\ UNCHANGED <<backend, seeds, groups, shown, newest, baseline, req, torn, halved>>

-----------------------------------------------------------------------------

\* SQLite begins with an empty database, D1 with the import of the seeds.
Init ==
    /\ backend \in {"sqlite", "d1"}
    /\ seeds \in [Paths -> {0, 1}]
    /\ LET imported == {p \in Paths : backend = "d1" /\ seeds[p] # 0}
       IN /\ groups = [p \in Paths |-> IF p \in imported THEN "seed" ELSE "none"]
          /\ shown = [p \in Paths |-> IF p \in imported THEN seeds[p] ELSE 0]
          /\ baseline = imported \cap System
          /\ newest = [p \in Paths |-> IF p \in baseline THEN seeds[p] ELSE 0]
          /\ torn = imported \ System
    /\ start = [Running EXCEPT !.at = IF backend = "d1" THEN "up" ELSE "down"]
    /\ req = [r \in Requests |-> Idle]
    /\ halved = {}

Next ==
    \/ \E r \in Requests :
         \/ \E p \in Paths, t \in Texts : BeginCreate(r, p, t) \/ BeginSave(r, p, t)
         \/ InsertGroup(r) \/ InsertVariant(r) \/ Update(r) \/ Revise(r) \/ Die(r)
    \/ \E p \in Paths, t \in 0..MaxText : Deploy(p, t)
    \/ \E p \in Paths : SeedGroup(p)
    \/ Kill \/ Seed \/ SeedVariant \/ SeedRevision \/ Started

Spec == Init /\ [][Next]_vars

-----------------------------------------------------------------------------
(* Properties *)

\* The newest revision of a route is what the site shows, whoever saved it and however
\* the saves met; except while a save is between the two, after it was cut off there,
\* after a save on D1 was overtaken by another there, and after a start has put the
\* text of the site's code back.
NewestIsShown ==
    \A p \in Paths \ torn :
        shown[p] = newest[p] \/ \E r \in Requests : req[r].at = "revision" /\ req[r].path = p

\* "That public path is already in use." is said before anything is written: a path
\* that was found free is refused by the database only to the later of two creations
\* that overlapped on D1, or because a creation or a start that was cut off has left
\* its group there, for good.
RefusedLate ==
    \A r \in Requests :
        req[r].at = "group" /\ groups[req[r].path] # "none"
            => req[r].late \/ req[r].path \in halved

\* A start fails only over a page that was created in the admin panel where the site's
\* code has a route by now; never over what an earlier start has left.
StartFailsOnTaken ==
    start.at = "failed" => \E p \in Paths : seeds[p] # 0 /\ groups[p] = "admin"
=============================================================================

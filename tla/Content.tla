------------------------------- MODULE Content -------------------------------
(***************************************************************************)
(* The content store: saving, creating, restoring and scheduling posts and *)
(* pages, on node:sqlite (content-repository-factory.ts) and on Cloudflare *)
(* D1 (runtime-actions-content.ts).                                        *)
(*                                                                         *)
(* A handler is a sequence of statements, each committed by itself, and    *)
(* may be cut off after any of them.  On D1 every statement is awaited and *)
(* the statements of different handlers interleave; on SQLite a handler    *)
(* runs to its end, or to the death of the process, before the next.       *)
(*                                                                         *)
(* What a writer submits (title, body, SEO fields) is one edit, a number;  *)
(* its authors, categories and tags are the edit's terms.  The audit log   *)
(* is only ever appended to and is left out.                               *)
(***************************************************************************)
EXTENDS Naturals, FiniteSets

CONSTANTS
    Slugs,
    SeedSets,   \* the sets of slugs to look at as those of the seed pages
    Users,      \* editors and API clients, one request each at a time
    Statuses,
    Forms,      \* what the writers submit besides the text: status and schedule
    Backends,   \* the backends to look at
    MaxEdit,    \* bound: edits ever submitted
    MaxNow      \* bound: the last second of the clock

ASSUME ConstantsAssumption ==
    /\ SeedSets \subseteq SUBSET Slugs
    /\ {"draft", "published"} \subseteq Statuses
    /\ Forms \subseteq [status : Statuses, sched : 0..MaxNow]
    /\ Backends \subseteq {"sqlite", "d1"}
    /\ MaxEdit \in Nat
    /\ MaxNow \in Nat \ {0}

VARIABLES
    backend,    \* which backend this deployment has
    record,     \* seed pages and content_entries: slug -> record, never changed
    over,       \* content_overrides: slug -> row
    terms,      \* content_authors, content_categories and content_tags
    revs,       \* content_revisions
    page,       \* the editor page a user has open
    req,        \* the request a user waits for
    now,        \* the clock, in the seconds of CURRENT_TIMESTAMP
    edits,      \* edits submitted so far
    settled     \* history: slugs whose last write ran alone and to its end

vars == <<backend, record, over, terms, revs, page, req, now, edits, settled>>

-----------------------------------------------------------------------------
(* Types *)

SeedEdit  == 0            \* what a seed page says
Stub      == MaxEdit + 1  \* the row that schedulePublish makes up
SeedStamp == 0            \* the date in a seed page's file; no clock shows it
Null      == 0            \* scheduled_at IS NULL

Edits == 0..Stub
Times == 0..MaxNow

Doc    == [edit : Edits, terms : SUBSET Edits, status : Statuses, sched : Times]
Row    == [edit : Edits, status : Statuses, sched : Times, stamp : Times]
Record == [edit : Edits, status : Statuses, stamp : Times]
NoRow    == [status |-> "none"]
NoRecord == [status |-> "none"]

Page   == [slug : Slugs, stamp : Times, seen : Edits]
NoPage == [stamp |-> Null]

\* What a request still has to do; "stub" is schedulePublish's second statement.
WriteSteps == {"entry", "baseline", "imported", "check", "upsert", "clear", "terms",
               "revision", "stub"}
Idle    == [at |-> "idle"]
Outcome == [at : {"refused", "deleted"}, slug : Slugs]
Request == [op : {"save", "put", "restore", "create", "schedule", "view"}, at : WriteSteps,
            slug : Slugs, doc : Doc, page : Page \cup {NoPage},
            alone : BOOLEAN, raced : BOOLEAN]

TypeOK ==
    /\ backend \in Backends
    /\ record \in [Slugs -> Record \cup {NoRecord}]
    /\ over \in [Slugs -> Row \cup {NoRow}]
    /\ terms \in [Slugs -> SUBSET Edits]
    /\ revs \in [Slugs -> SUBSET Doc]
    /\ page \in [Users -> Page \cup {NoPage}]
    /\ req \in [Users -> {Idle} \cup Outcome \cup Request]
    /\ now \in 1..MaxNow
    /\ edits \in 0..MaxEdit
    /\ settled \subseteq Slugs

-----------------------------------------------------------------------------
(* Requests *)

Busy(u) == req[u].at \in WriteSteps

\* node:sqlite is synchronous: nothing runs between two statements of a handler.
MayRun == backend = "d1" \/ \A u \in Users : ~Busy(u)

Known(s) == record[s] # NoRecord

\* findContentRecord and getPersistedOverride: what a reader of the slug is shown.
Shown(s) == IF over[s] = NoRow THEN record[s].edit ELSE over[s].edit

\* GET /ap-admin/posts/{slug}: the form carries the record's updatedAt, never the
\* override's.
OpenEditor(u, s) ==
    /\ ~Busy(u) /\ MayRun /\ Known(s)
    /\ page' = [page EXCEPT ![u] = [slug |-> s, stamp |-> record[s].stamp, seen |-> Shown(s)]]
    /\ UNCHANGED <<backend, record, over, terms, revs, req, now, edits, settled>>

Begin(u, op, at, s, doc, from) ==
    /\ ~Busy(u) /\ MayRun
    /\ req' = [req EXCEPT ![u] = [op |-> op, at |-> at, slug |-> s, doc |-> doc, page |-> from,
                                  alone |-> FALSE, raced |-> FALSE]]
    /\ UNCHANGED <<backend, record, over, terms, revs, page, now, settled>>

\* saveContentState checks for a conflict first, saveRuntimeContentState after it
\* has written the baseline.  Only the editor sends lastKnownUpdatedAt, and a
\* record without a date sends none.
FirstStep == IF backend = "sqlite" THEN "check" ELSE "baseline"

BeginSave(u, form) ==
    /\ page[u] # NoPage
    /\ edits < MaxEdit
    /\ edits' = edits + 1
    /\ Begin(u, "save", FirstStep, page[u].slug,
             [edit |-> edits', terms |-> {edits'}, status |-> form.status, sched |-> form.sched],
             page[u])

\* PUT /ap-api/v1/content/{id}: a save without terms, schedule and stamp.
BeginPut(u, s, status) ==
    /\ Known(s)
    /\ edits < MaxEdit
    /\ edits' = edits + 1
    /\ Begin(u, "put", FirstStep, s,
             [edit |-> edits', terms |-> {}, status |-> status, sched |-> Null], NoPage)

\* DELETE /ap-api/v1/content/{id}: it saves status "archived" with an empty SEO
\* title, which the save refuses before it writes anything, and answers 204.
Delete(u, s) ==
    /\ ~Busy(u) /\ MayRun /\ Known(s)
    /\ req' = [req EXCEPT ![u] = [at |-> "deleted", slug |-> s]]
    /\ UNCHANGED <<backend, record, over, terms, revs, page, now, edits, settled>>

\* restoreRevision: any revision the history page lists.
BeginRestore(u, s, doc) ==
    /\ doc \in revs[s]
    /\ Begin(u, "restore", "baseline", s, doc, NoPage)
    /\ UNCHANGED edits

\* createContentRecord: the slug is not known yet.
BeginCreate(u, s, status) ==
    /\ ~Known(s)
    /\ edits < MaxEdit
    /\ edits' = edits + 1
    /\ Begin(u, "create", "entry", s,
             [edit |-> edits', terms |-> {}, status |-> status, sched |-> Null], NoPage)

\* What ensureBaselineRevision takes from the record.
BaselineDoc(s) ==
    [edit |-> record[s].edit, terms |-> {}, status |-> record[s].status, sched |-> Null]

\* getContentRevisions on SQLite writes the baseline before it lists the history.
BeginView(u, s) ==
    /\ backend = "sqlite" /\ Known(s)
    /\ Begin(u, "view", "baseline", s, BaselineDoc(s), NoPage)
    /\ UNCHANGED edits

-----------------------------------------------------------------------------
(* The statements of a write *)

Goto(u, at) == req' = [req EXCEPT ![u].at = at]
End(u)      == req' = [req EXCEPT ![u] = Idle]

\* INSERT INTO content_entries: its key stops the second of two creates.
InsertEntry(u) ==
    LET s == req[u].slug
    IN /\ req[u].at = "entry"
       /\ IF Known(s) THEN End(u) /\ UNCHANGED record
          ELSE /\ record' = [record EXCEPT ![s] =
                    [edit |-> req[u].doc.edit, status |-> "draft", stamp |-> now]]
               /\ Goto(u, "upsert")
       /\ UNCHANGED <<backend, over, terms, revs, page, now, edits, settled>>

BaselineRow(s) ==
    IF over[s] # NoRow THEN over[s]
    ELSE [edit |-> record[s].edit, status |-> record[s].status, sched |-> Null, stamp |-> now]

\* ensureBaselineRevision, INSERT ... ON CONFLICT(slug) DO NOTHING of the override.
BaselineOverride(u) ==
    LET s == req[u].slug
    IN /\ req[u].at = "baseline"
       /\ over' = [over EXCEPT ![s] = BaselineRow(s)]
       /\ Goto(u, "imported")
       /\ UNCHANGED <<backend, record, terms, revs, page, now, edits, settled>>

AfterBaseline(u) ==
    IF req[u].op = "view" THEN End(u)
    ELSE Goto(u, IF req[u].op = "save" /\ backend = "d1" THEN "check" ELSE "upsert")

\* Mutant: the override is the baseline, no revision is written.
BaselineRevision_skipped(u) ==
    /\ req[u].at = "imported"
    /\ AfterBaseline(u)
    /\ UNCHANGED <<backend, record, over, terms, revs, page, now, edits, settled>>

\* ensureBaselineRevision, the imported revision unless there is one.  (Two that
\* a race on D1 inserts are the same.)
BaselineRevision(u) ==
    LET s == req[u].slug
    IN /\ req[u].at = "imported"
       /\ revs' = [revs EXCEPT ![s] = @ \cup {BaselineDoc(s)}]
       /\ AfterBaseline(u)
       /\ UNCHANGED <<backend, record, over, terms, page, now, edits, settled>>

\* detectLocalConflict compares the record's date, detectConflict the override's;
\* neither looks when the form had no date.
Stale(u) ==
    LET s == req[u].slug  from == req[u].page
    IN /\ from # NoPage
       /\ IF backend = "sqlite" THEN record[s].stamp # from.stamp
          ELSE over[s] # NoRow /\ over[s].stamp # from.stamp

\* Mutant: no check at all.
Check_none(u) ==
    /\ req[u].at = "check"
    /\ Goto(u, IF backend = "sqlite" THEN "baseline" ELSE "upsert")
    /\ UNCHANGED <<backend, record, over, terms, revs, page, now, edits, settled>>

Check(u) ==
    /\ req[u].at = "check"
    /\ IF Stale(u) THEN req' = [req EXCEPT ![u] = [at |-> "refused", slug |-> req[u].slug]]
       ELSE Goto(u, IF backend = "sqlite" THEN "baseline" ELSE "upsert")
    /\ UNCHANGED <<backend, record, over, terms, revs, page, now, edits, settled>>

Writing(s) == {u \in Users : req[u].at \in {"clear", "terms", "revision"} /\ req[u].slug = s}

\* INSERT ... ON CONFLICT(slug) DO UPDATE.  The create on D1 is a plain INSERT: it
\* fails when the scheduler has made up a row meanwhile.
UpsertOverride(u) ==
    LET s == req[u].slug
    IN /\ req[u].at = "upsert"
       /\ IF req[u].op = "create" /\ backend = "d1" /\ over[s] # NoRow
            THEN End(u) /\ UNCHANGED <<over, settled>>
          ELSE /\ over' = [over EXCEPT ![s] =
                    [edit |-> req[u].doc.edit, status |-> req[u].doc.status,
                     sched |-> req[u].doc.sched, stamp |-> now]]
               /\ req' = [v \in Users |->
                    IF v = u THEN [req[v] EXCEPT
                        !.at = IF req[u].op = "create" THEN "revision" ELSE "clear",
                        !.alone = Writing(s) = {}]
                    ELSE IF Busy(v) /\ req[v].slug = s
                      THEN [req[v] EXCEPT !.alone = FALSE, !.raced = (req[v].at = "upsert")]
                    ELSE req[v]]
               /\ settled' = settled \ {s}
       /\ UNCHANGED <<backend, record, terms, revs, page, now, edits>>

\* Mutant: the DELETE statements are missing.
ClearTerms_not(u) ==
    /\ req[u].at = "clear"
    /\ Goto(u, "terms")
    /\ UNCHANGED <<backend, record, over, terms, revs, page, now, edits, settled>>

\* replaceContentAssignments: the DELETEs, then the INSERT OR IGNOREs.
ClearTerms(u) ==
    /\ req[u].at = "clear"
    /\ terms' = [terms EXCEPT ![req[u].slug] = {}]
    /\ Goto(u, "terms")
    /\ UNCHANGED <<backend, record, over, revs, page, now, edits, settled>>

InsertTerms(u) ==
    /\ req[u].at = "terms"
    /\ terms' = [terms EXCEPT ![req[u].slug] = @ \cup req[u].doc.terms]
    /\ Goto(u, "revision")
    /\ UNCHANGED <<backend, record, over, revs, page, now, edits, settled>>

\* Mutant: a dated revision keeps the day, not the second.
InsertRevision_nextDay(u) ==
    LET s == req[u].slug
    IN /\ req[u].at = "revision"
       /\ revs' = [revs EXCEPT ![s] = @ \cup {[req[u].doc EXCEPT !.sched = MaxNow + 1]}]
       /\ End(u)
       /\ UNCHANGED <<backend, record, over, terms, page, now, edits, settled>>

\* insertReviewedRevision, the last statement; after a save the editor is sent to
\* its page anew.
InsertRevision(u) ==
    LET s == req[u].slug
    IN /\ req[u].at = "revision"
       /\ revs' = [revs EXCEPT ![s] = @ \cup {req[u].doc}]
       /\ End(u)
       /\ page' = IF req[u].op = "save" THEN [page EXCEPT ![u] = NoPage] ELSE page
       /\ settled' = IF req[u].alone THEN settled \cup {s} ELSE settled
       /\ UNCHANGED <<backend, record, over, terms, now, edits>>

\* The worker or the process dies: what is committed stays.
Killed(u) ==
    /\ Busy(u)
    /\ End(u)
    /\ UNCHANGED <<backend, record, over, terms, revs, page, now, edits, settled>>

-----------------------------------------------------------------------------
(* Scheduling *)

\* schedulePublish, the UPDATE.
Schedule(u, s, t) ==
    /\ Known(s) /\ t > now
    /\ ~Busy(u) /\ MayRun
    /\ over' = IF over[s] = NoRow THEN over
               ELSE [over EXCEPT ![s].sched = t, ![s].status = "draft"]
    /\ req' = [req EXCEPT ![u] = [op |-> "schedule", at |-> "stub", slug |-> s,
                 doc |-> [edit |-> Stub, terms |-> {}, status |-> "draft", sched |-> t],
                 page |-> NoPage, alone |-> FALSE, raced |-> FALSE]]
    /\ UNCHANGED <<backend, record, terms, revs, page, now, edits, settled>>

\* schedulePublish, INSERT ... SELECT FROM content_entries WHERE NOT EXISTS: a seed
\* page without an override gets none.
ScheduleStub(u) ==
    LET s == req[u].slug
    IN /\ req[u].at = "stub"
       /\ over' = IF over[s] # NoRow \/ record[s].stamp = SeedStamp THEN over
                  ELSE [over EXCEPT ![s] = [edit |-> Stub, status |-> "draft",
                                            sched |-> req[u].doc.sched, stamp |-> now]]
       /\ End(u)
       /\ UNCHANGED <<backend, record, terms, revs, page, now, edits, settled>>

CancelScheduled(s) ==
    /\ MayRun
    /\ over[s] # NoRow
    /\ over' = [over EXCEPT ![s].sched = Null]
    /\ UNCHANGED <<backend, record, terms, revs, page, req, now, edits, settled>>

Due(s) == over[s] # NoRow /\ over[s].sched # Null /\ over[s].sched <= now

\* Mutant: only drafts are looked at.
RunScheduled_drafts ==
    /\ MayRun
    /\ \E s \in Slugs : Due(s) /\ over[s].status = "draft"
    /\ over' = [s \in Slugs |-> IF Due(s) /\ over[s].status = "draft"
                  THEN [over[s] EXCEPT !.status = "published", !.sched = Null] ELSE over[s]]
    /\ UNCHANGED <<backend, record, terms, revs, page, req, now, edits, settled>>

\* runScheduledPublishes, called by a cron job: whatever is due, in any status.
RunScheduled ==
    /\ MayRun
    /\ \E s \in Slugs : Due(s)
    /\ over' = [s \in Slugs |-> IF Due(s)
                  THEN [over[s] EXCEPT !.status = "published", !.sched = Null] ELSE over[s]]
    /\ UNCHANGED <<backend, record, terms, revs, page, req, now, edits, settled>>

Tick ==
    /\ now < MaxNow
    /\ now' = now + 1
    /\ UNCHANGED <<backend, record, over, terms, revs, page, req, edits, settled>>

-----------------------------------------------------------------------------

Init ==
    /\ backend \in Backends
    /\ \E seeds \in SeedSets : record = [s \in Slugs |->
         IF s \in seeds THEN [edit |-> SeedEdit, status |-> "published", stamp |-> SeedStamp]
         ELSE NoRecord]
    /\ over = [s \in Slugs |-> NoRow]
    /\ terms = [s \in Slugs |-> {}]
    /\ revs = [s \in Slugs |-> {}]
    /\ page = [u \in Users |-> NoPage]
    /\ req = [u \in Users |-> Idle]
    /\ now = 1
    /\ edits = 0
    /\ settled = {}

\* One statement of a request that is on its way.
Statement(u) ==
    \/ InsertEntry(u) \/ BaselineOverride(u) \/ BaselineRevision(u) \/ Check(u)
    \/ UpsertOverride(u) \/ ClearTerms(u) \/ InsertTerms(u) \/ InsertRevision(u)
    \/ ScheduleStub(u)

Next ==
    \/ \E u \in Users, s \in Slugs : OpenEditor(u, s) \/ Delete(u, s) \/ BeginView(u, s)
    \/ \E u \in Users, form \in Forms : BeginSave(u, form)
    \/ \E u \in Users, s \in Slugs, form \in Forms :
         BeginPut(u, s, form.status) \/ BeginCreate(u, s, form.status)
    \/ \E u \in Users, s \in Slugs : \E doc \in revs[s] : BeginRestore(u, s, doc)
    \/ \E u \in Users, s \in Slugs, t \in 1..MaxNow : Schedule(u, s, t)
    \/ \E u \in Users : Statement(u) \/ Killed(u)
    \/ \E s \in Slugs : CancelScheduled(s)
    \/ RunScheduled
    \/ Tick

Spec == Init /\ [][Next]_vars

\* Time passes, a handler that is running goes on or dies, and the cron job keeps
\* calling.  A synchronous handler can hold the job up, but not for ever.
Fairness ==
    /\ WF_vars(Tick)
    /\ \A u \in Users : WF_vars(Statement(u))
    /\ SF_vars(RunScheduled)

FairSpec == Spec /\ Fairness

-----------------------------------------------------------------------------
(* Properties *)

\* What a slug shows after a write that nothing disturbed is one of its revisions,
\* text and terms together, so that the history can bring it back ("Full snapshot
\* history": a save, a restore and a create write the override, the assignments and
\* the revision one after the other).
ShownIsASnapshot ==
    \A s \in settled :
        \E r \in revs[s] : r.edit = over[s].edit /\ r.terms = terms[s]

\* What a slug said when it was imported or created is never overwritten before a
\* revision holds it: ensureBaselineRevision comes before every overwrite, whatever
\* crashes and whoever else writes.
OriginalKept(s) ==
    over[s] # NoRow /\ over[s].edit \notin {record[s].edit, Stub}
        => \E r \in revs[s] : r.edit = record[s].edit

OriginalRestorable == \A s \in Slugs : OriginalKept(s)

\* The step in which u's save replaces what the slug shows.
Saves(u) == req[u].at = "upsert" /\ req[u].op = "save" /\ req'[u].at = "clear"

\* On D1 a save replaces text its author never saw only if another write slipped in
\* between its check and its upsert, or all of it happened in the second of the
\* record's date: detectConflict compares dates that have whole seconds.
UnseenLoss ==
    [][\A u \in Users : LET s == req[u].slug
         IN backend = "d1" /\ Saves(u) /\ Shown(s) # req[u].page.seen
              => req[u].raced \/ over[s].stamp = record[s].stamp]_vars

\* A save is refused, or replaces exactly the text its author was looking at: "rejects
\* a stale save when lastKnownUpdatedAt no longer matches".
StaleSaveRefused ==
    [][\A u \in Users : Saves(u) => Shown(req[u].slug) = req[u].page.seen]_vars

\* A save is refused only when "This record was modified by another editor after you
\* opened it".
ConflictMeansModified ==
    [][\A u \in Users : req[u].at = "check" /\ req'[u].at = "refused"
         => Shown(req[u].slug) # req[u].page.seen]_vars

\* "Delete content (archives it)": when DELETE answers 204 the record is archived.
DeleteArchives ==
    [][\A u \in Users : req[u].at # "deleted" /\ req'[u].at = "deleted"
         => LET s == req'[u].slug IN over'[s] # NoRow /\ over'[s].status = "archived"]_vars

\* A publication that is scheduled for a second of the clock takes place, or is
\* cancelled, moved or overwritten: no status and no interrupted write makes the
\* cron job pass over it.
ScheduleRuns ==
    \A s \in Slugs, t \in 1..MaxNow : []<>~(over[s] # NoRow /\ over[s].sched = t)

-----------------------------------------------------------------------------
(* The inductive invariant behind OriginalRestorable. *)

HasOriginal(s) == \E r \in revs[s] : r.edit = record[s].edit

\* Nothing is stored for a slug, and nobody has its page, before it has a record.
StoredKnown == \A s \in Slugs : ~Known(s) => over[s] = NoRow /\ revs[s] = {}

PagesKnown == \A u \in Users : page[u] # NoPage => Known(page[u].slug)

\* A create is the only request before there is a record; it has no baseline to
\* write and no date to check.  Whoever is about to overwrite a slug has its
\* original in the history.
RequestReady(u) ==
    Busy(u) =>
        /\ req[u].at = "entry" => req[u].op = "create"
        /\ req[u].op = "create" => req[u].at \in {"entry", "upsert", "revision"}
        /\ req[u].at # "entry" => Known(req[u].slug)
        /\ req[u].at = "upsert" /\ req[u].op = "create" =>
              req[u].doc.edit = record[req[u].slug].edit
        /\ req[u].at = "upsert" /\ req[u].op # "create" => HasOriginal(req[u].slug)
        /\ req[u].at = "check" /\ backend = "d1" => HasOriginal(req[u].slug)

OriginalInv ==
    StoredKnown /\ PagesKnown /\ (\A u \in Users : RequestReady(u)) /\ OriginalRestorable
=============================================================================

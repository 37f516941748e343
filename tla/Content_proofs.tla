--------------------------- MODULE Content_proofs ---------------------------
(***************************************************************************)
(* What is proved of the content store for every number of slugs, users,   *)
(* edits and seconds, on both backends: its types; that the original of a  *)
(* record stays restorable; that what a slug shows after an undisturbed    *)
(* write is in its history; and when a save on D1 replaces text its author *)
(* never saw.                                                              *)
(*                                                                         *)
(* Each of the three is inductive only together with what the requests     *)
(* under way have done so far: OriginalInv, WritesInv with HandlersInv,    *)
(* and DatesInv.  The later proofs sort the steps into those that leave    *)
(* the part in question alone (Quiet, StampsStay) and the few that write   *)
(* it.                                                                     *)
(***************************************************************************)
EXTENDS Content, TLAPS

-----------------------------------------------------------------------------
(* Records and the update of their fields *)

\* The outcome and the idle value are told from a request by their step.
LEMMA BusyIsRequest ==
    ASSUME TypeOK, NEW u \in Users, Busy(u)
    PROVE  req[u] \in Request
BY DEF TypeOK, Busy, Idle, Outcome, WriteSteps

LEMMA RequestUpdates ==
    ASSUME NEW q \in Request
    PROVE  /\ \A at \in WriteSteps : [q EXCEPT !.at = at] \in Request
           /\ \A b \in BOOLEAN : [q EXCEPT !.alone = b] \in Request
           /\ \A b \in BOOLEAN : [q EXCEPT !.raced = b] \in Request
BY DEF Request

LEMMA RowUpdates ==
    ASSUME NEW r \in Row
    PROVE  /\ \A t \in Times : [r EXCEPT !.sched = t] \in Row
           /\ \A st \in Statuses : [r EXCEPT !.status = st] \in Row
BY DEF Row

LEMMA Numbers ==
    /\ 0 \in Times /\ 0 \in Edits /\ Stub \in Edits
    /\ 1..MaxNow \subseteq Times /\ 0..MaxEdit \subseteq Edits
    /\ "draft" \in Statuses /\ "published" \in Statuses
BY ConstantsAssumption DEF Times, Edits, Stub

-----------------------------------------------------------------------------
(* Types *)

LEMMA TypeInit == Init => TypeOK
<1> SUFFICES ASSUME Init PROVE TypeOK
  OBVIOUS
<1>1. record \in [Slugs -> Record \cup {NoRecord}]
  <2>1. [edit |-> SeedEdit, status |-> "published", stamp |-> SeedStamp] \in Record
    BY Numbers DEF Record, SeedEdit, SeedStamp
  <2> QED
    BY <2>1 DEF Init
<1>2. 1 \in 1..MaxNow /\ 0 \in 0..MaxEdit
  BY ConstantsAssumption
<1> QED
  BY <1>1, <1>2 DEF Init, TypeOK

\* The type of req.
Requests == [Users -> {Idle} \cup Outcome \cup Request]

LEMMA GotoTyped ==
    ASSUME TypeOK, NEW u \in Users, Busy(u), NEW at \in WriteSteps, Goto(u, at)
    PROVE  req' \in Requests
BY BusyIsRequest, RequestUpdates DEF Goto, TypeOK, Requests

LEMMA EndTyped ==
    ASSUME TypeOK, NEW u \in Users, End(u)
    PROVE  req' \in Requests
BY DEF End, TypeOK, Requests

LEMMA BeginTyped ==
    ASSUME TypeOK, NEW u \in Users, NEW s \in Slugs, NEW doc \in Doc,
           NEW from \in Page \cup {NoPage}, NEW at \in WriteSteps,
           NEW op \in {"save", "put", "restore", "create", "schedule", "view"},
           Begin(u, op, at, s, doc, from), edits' \in 0..MaxEdit
    PROVE  TypeOK'
<1>1. [op |-> op, at |-> at, slug |-> s, doc |-> doc, page |-> from,
       alone |-> FALSE, raced |-> FALSE] \in Request
  BY DEF Request
<1> QED
  BY <1>1 DEF Begin, TypeOK

LEMMA FirstStepTyped == FirstStep \in WriteSteps
BY DEF FirstStep, WriteSteps

LEMMA BaselineDocTyped ==
    ASSUME TypeOK, NEW s \in Slugs, Known(s)
    PROVE  BaselineDoc(s) \in Doc
<1>1. record[s] \in Record
  BY DEF TypeOK, Known
<1> QED
  BY <1>1, Numbers DEF BaselineDoc, Record, Doc, Null

LEMMA OpenEditorTyped ==
    ASSUME TypeOK, NEW u \in Users, NEW s \in Slugs, OpenEditor(u, s)
    PROVE  TypeOK'
<1>1. record[s] \in Record
  BY DEF OpenEditor, TypeOK, Known
<1>2. Shown(s) \in Edits
  BY <1>1 DEF Shown, TypeOK, Record, Row
<1>3. [slug |-> s, stamp |-> record[s].stamp, seen |-> Shown(s)] \in Page
  BY <1>1, <1>2 DEF Record, Page
<1> QED
  BY <1>3 DEF OpenEditor, TypeOK

LEMMA NewEdit ==
    ASSUME TypeOK, edits < MaxEdit, edits' = edits + 1
    PROVE  edits' \in 0..MaxEdit /\ edits' \in Edits
BY ConstantsAssumption DEF TypeOK, Edits, Stub

LEMMA BeginSaveTyped ==
    ASSUME TypeOK, NEW u \in Users, NEW form \in Forms, BeginSave(u, form)
    PROVE  TypeOK'
<1>1. page[u] \in Page /\ page[u].slug \in Slugs
  BY DEF BeginSave, TypeOK, Page
<1>2. edits' \in 0..MaxEdit /\ edits' \in Edits
  BY NewEdit DEF BeginSave
<1>3. form.status \in Statuses /\ form.sched \in Times
  BY ConstantsAssumption DEF Times
<1>4. [edit |-> edits', terms |-> {edits'}, status |-> form.status, sched |-> form.sched]
        \in Doc
  BY <1>2, <1>3 DEF Doc
<1> QED
  BY <1>1, <1>2, <1>4, FirstStepTyped, BeginTyped DEF BeginSave

LEMMA BeginPutTyped ==
    ASSUME TypeOK, NEW u \in Users, NEW s \in Slugs, NEW form \in Forms,
           BeginPut(u, s, form.status) \/ BeginCreate(u, s, form.status)
    PROVE  TypeOK'
<1>2. edits' \in 0..MaxEdit /\ edits' \in Edits
  BY NewEdit DEF BeginPut, BeginCreate
<1>3. form.status \in Statuses
  BY ConstantsAssumption
<1>4. [edit |-> edits', terms |-> {}, status |-> form.status, sched |-> Null] \in Doc
  BY <1>2, <1>3, Numbers DEF Doc, Null
<1>5. "entry" \in WriteSteps
  BY DEF WriteSteps
<1>6. CASE BeginPut(u, s, form.status)
  BY <1>2, <1>4, <1>6, FirstStepTyped, BeginTyped DEF BeginPut
<1>7. CASE BeginCreate(u, s, form.status)
  BY <1>2, <1>4, <1>5, <1>7, BeginTyped DEF BeginCreate
<1> QED
  BY <1>6, <1>7

LEMMA BaselineFirst == "baseline" \in WriteSteps
BY DEF WriteSteps

LEMMA BeginRestoreTyped ==
    ASSUME TypeOK, NEW u \in Users, NEW s \in Slugs, NEW doc \in revs[s],
           BeginRestore(u, s, doc)
    PROVE  TypeOK'
<1>1. doc \in Doc /\ edits' \in 0..MaxEdit
  BY DEF TypeOK, BeginRestore
<1> QED
  BY <1>1, BaselineFirst, BeginTyped DEF BeginRestore

LEMMA BeginViewTyped ==
    ASSUME TypeOK, NEW u \in Users, NEW s \in Slugs, BeginView(u, s)
    PROVE  TypeOK'
<1>1. BaselineDoc(s) \in Doc /\ edits' \in 0..MaxEdit
  BY BaselineDocTyped DEF TypeOK, BeginView
<1> QED
  BY <1>1, BaselineFirst, BeginTyped DEF BeginView

LEMMA DeleteTyped ==
    ASSUME TypeOK, NEW u \in Users, NEW s \in Slugs, Delete(u, s)
    PROVE  TypeOK'
BY DEF Delete, TypeOK, Outcome

\* A request at one of its statements, and the parts it is made of.
LEMMA StatementRequest ==
    ASSUME TypeOK, NEW u \in Users, Statement(u)
    PROVE  /\ Busy(u)
           /\ req[u].slug \in Slugs
           /\ req[u].doc \in Doc
           /\ req[u].at # "entry" /\ record[req[u].slug] # NoRecord
                => record[req[u].slug] \in Record
<1>1. Busy(u)
  BY DEF Statement, Busy, WriteSteps, InsertEntry, BaselineOverride, BaselineRevision,
         Check, UpsertOverride, ClearTerms, InsertTerms, InsertRevision, ScheduleStub
<1>2. req[u] \in Request
  BY <1>1, BusyIsRequest
<1> QED
  BY <1>1, <1>2 DEF Request, TypeOK

LEMMA InsertEntryTyped ==
    ASSUME TypeOK, NEW u \in Users, InsertEntry(u)
    PROVE  TypeOK'
<1> DEFINE s == req[u].slug
           new == [edit |-> req[u].doc.edit, status |-> "draft", stamp |-> now]
<1>1. Busy(u) /\ s \in Slugs /\ req[u].doc \in Doc
  BY StatementRequest DEF Statement
<1>2. new \in Record
  BY <1>1, Numbers DEF Doc, Record, TypeOK
<1>3. req' \in Requests
  BY <1>1, GotoTyped, EndTyped DEF InsertEntry, WriteSteps
<1>4. record' \in [Slugs -> Record \cup {NoRecord}]
  BY <1>1, <1>2 DEF InsertEntry, TypeOK
<1> QED
  BY <1>3, <1>4 DEF InsertEntry, TypeOK, Requests

LEMMA BaselineOverrideTyped ==
    ASSUME TypeOK, NEW u \in Users, BaselineOverride(u), Known(req[u].slug)
    PROVE  TypeOK'
<1> DEFINE s == req[u].slug
<1>1. Busy(u) /\ s \in Slugs
  BY StatementRequest DEF Statement
<1>2. record[s] \in Record /\ now \in Times
  BY <1>1, Numbers DEF Known, TypeOK
<1>3. BaselineRow(s) \in Row
  BY <1>1, <1>2, Numbers DEF BaselineRow, TypeOK, Record, Row, Null
<1>4. req' \in Requests
  BY <1>1, GotoTyped DEF BaselineOverride, WriteSteps
<1>5. over' \in [Slugs -> Row \cup {NoRow}]
  BY <1>1, <1>3 DEF BaselineOverride, TypeOK
<1> QED
  BY <1>4, <1>5 DEF BaselineOverride, TypeOK, Requests

LEMMA BaselineRevisionTyped ==
    ASSUME TypeOK, NEW u \in Users, BaselineRevision(u), Known(req[u].slug)
    PROVE  TypeOK'
<1> DEFINE s == req[u].slug
<1>1. Busy(u) /\ s \in Slugs
  BY StatementRequest DEF Statement
<1>2. BaselineDoc(s) \in Doc
  BY <1>1, BaselineDocTyped
<1>3. req' \in Requests
  BY <1>1, GotoTyped, EndTyped DEF BaselineRevision, AfterBaseline, WriteSteps
<1>4. revs' \in [Slugs -> SUBSET Doc]
  BY <1>1, <1>2 DEF BaselineRevision, TypeOK
<1> QED
  BY <1>3, <1>4 DEF BaselineRevision, TypeOK, Requests

LEMMA CheckTyped ==
    ASSUME TypeOK, NEW u \in Users, Check(u)
    PROVE  TypeOK'
<1>1. Busy(u) /\ req[u].slug \in Slugs
  BY StatementRequest DEF Statement
<1>2. CASE Stale(u)
  BY <1>1, <1>2 DEF Check, TypeOK, Outcome
<1>3. CASE ~Stale(u)
  <2>1. req' \in Requests
    BY <1>1, <1>3, GotoTyped DEF Check, WriteSteps
  <2> QED
    BY <2>1 DEF Check, TypeOK, Requests
<1> QED
  BY <1>2, <1>3

\* A create on D1 that finds a row ends; any other upsert writes the row.
Refuses(u) == req[u].op = "create" /\ backend = "d1" /\ over[req[u].slug] # NoRow

\* What becomes of the requests when u's upsert is committed.
AfterUpsert(u, v) ==
    IF v = u THEN [req[v] EXCEPT
        !.at = IF req[u].op = "create" THEN "revision" ELSE "clear",
        !.alone = Writing(req[u].slug) = {}]
    ELSE IF Busy(v) /\ req[v].slug = req[u].slug
      THEN [req[v] EXCEPT !.alone = FALSE, !.raced = (req[v].at = "upsert")]
    ELSE req[v]

LEMMA AfterUpsertTyped ==
    ASSUME TypeOK, NEW u \in Users, Busy(u), NEW v \in Users
    PROVE  AfterUpsert(u, v) \in {Idle} \cup Outcome \cup Request
<1>1. CASE v = u
  <2>1. req[v] \in Request
    BY <1>1, BusyIsRequest
  <2> DEFINE at == IF req[u].op = "create" THEN "revision" ELSE "clear"
             q  == [req[v] EXCEPT !.at = at]
             b  == Writing(req[u].slug) = {}
  <2>2. at \in WriteSteps /\ b \in BOOLEAN
    BY DEF WriteSteps
  <2>3. q \in Request
    BY <2>1, <2>2, RequestUpdates
  <2>4. [q EXCEPT !.alone = b] \in Request
    BY <2>2, <2>3, RequestUpdates
  <2>5. AfterUpsert(u, v) = [q EXCEPT !.alone = b]
    BY <1>1 DEF AfterUpsert
  <2> QED
    BY <2>4, <2>5
<1>2. CASE v # u /\ Busy(v) /\ req[v].slug = req[u].slug
  <2>1. req[v] \in Request
    BY <1>2, BusyIsRequest
  <2> DEFINE q == [req[v] EXCEPT !.alone = FALSE]
             b == req[v].at = "upsert"
  <2>2. q \in Request
    BY <2>1, RequestUpdates
  <2>3. [q EXCEPT !.raced = b] \in Request
    BY <2>2, RequestUpdates
  <2>4. AfterUpsert(u, v) = [q EXCEPT !.raced = b]
    BY <1>2 DEF AfterUpsert
  <2> QED
    BY <2>3, <2>4
<1>3. CASE v # u /\ ~(Busy(v) /\ req[v].slug = req[u].slug)
  BY <1>3 DEF AfterUpsert, TypeOK
<1> QED
  BY <1>1, <1>2, <1>3

LEMMA UpsertOverrideTyped ==
    ASSUME TypeOK, NEW u \in Users, UpsertOverride(u)
    PROVE  TypeOK'
<1> DEFINE s == req[u].slug
           row == [edit |-> req[u].doc.edit, status |-> req[u].doc.status,
                   sched |-> req[u].doc.sched, stamp |-> now]
<1>1. Busy(u) /\ s \in Slugs /\ req[u].doc \in Doc
  BY StatementRequest DEF Statement
<1>2. row \in Row
  BY <1>1, Numbers DEF Doc, Row, TypeOK
<1>3. CASE Refuses(u)
  <2>1. End(u) /\ UNCHANGED <<backend, record, over, terms, revs, page, now, edits, settled>>
    BY <1>3 DEF UpsertOverride, Refuses
  <2> QED
    BY <2>1, EndTyped DEF TypeOK, Requests
<1>4. CASE ~Refuses(u)
  <2>1. over' = [over EXCEPT ![s] = row]
    BY <1>4 DEF UpsertOverride, Refuses
  <2>2. req' = [v \in Users |-> AfterUpsert(u, v)]
    BY <1>4 DEF UpsertOverride, Refuses, AfterUpsert
  <2>3. settled' = settled \ {s}
    BY <1>4 DEF UpsertOverride, Refuses
  <2>4. over' \in [Slugs -> Row \cup {NoRow}]
    BY <2>1, <1>1, <1>2 DEF TypeOK
  <2>5. req' \in Requests
    BY <2>2, <1>1, AfterUpsertTyped DEF Requests
  <2> QED
    BY <2>3, <2>4, <2>5 DEF UpsertOverride, TypeOK, Requests
<1> QED
  BY <1>3, <1>4

LEMMA TermsTyped ==
    ASSUME TypeOK, NEW u \in Users, ClearTerms(u) \/ InsertTerms(u)
    PROVE  TypeOK'
<1>1. Busy(u) /\ req[u].slug \in Slugs /\ req[u].doc \in Doc
  BY StatementRequest DEF Statement
<1>2. req' \in Requests
  BY <1>1, GotoTyped DEF ClearTerms, InsertTerms, WriteSteps
<1>3. terms' \in [Slugs -> SUBSET Edits]
  BY <1>1 DEF ClearTerms, InsertTerms, TypeOK, Doc
<1> QED
  BY <1>2, <1>3 DEF ClearTerms, InsertTerms, TypeOK, Requests

LEMMA InsertRevisionTyped ==
    ASSUME TypeOK, NEW u \in Users, InsertRevision(u)
    PROVE  TypeOK'
<1>1. Busy(u) /\ req[u].slug \in Slugs /\ req[u].doc \in Doc
  BY StatementRequest DEF Statement
<1>2. req' \in Requests
  BY EndTyped DEF InsertRevision
<1>3. revs' \in [Slugs -> SUBSET Doc]
  BY <1>1 DEF InsertRevision, TypeOK
<1>4. page' \in [Users -> Page \cup {NoPage}] /\ settled' \subseteq Slugs
  BY <1>1 DEF InsertRevision, TypeOK
<1> QED
  BY <1>2, <1>3, <1>4 DEF InsertRevision, TypeOK, Requests

LEMMA KilledTyped ==
    ASSUME TypeOK, NEW u \in Users, Killed(u)
    PROVE  TypeOK'
BY EndTyped DEF Killed, TypeOK, Requests

-----------------------------------------------------------------------------
(* Types: scheduling *)

LEMMA ScheduleTyped ==
    ASSUME TypeOK, NEW u \in Users, NEW s \in Slugs, NEW t \in 1..MaxNow, Schedule(u, s, t)
    PROVE  TypeOK'
<1>1. t \in Times
  BY Numbers
<1> DEFINE doc == [edit |-> Stub, terms |-> {}, status |-> "draft", sched |-> t]
<1>2. doc \in Doc
  BY <1>1, Numbers DEF Doc
<1>3. [op |-> "schedule", at |-> "stub", slug |-> s, doc |-> doc, page |-> NoPage,
       alone |-> FALSE, raced |-> FALSE] \in Request
  BY <1>2 DEF Request, WriteSteps
<1>4. req' \in Requests
  BY <1>3 DEF Schedule, TypeOK, Requests
<1>5. over' \in [Slugs -> Row \cup {NoRow}]
  <2>1. CASE over[s] = NoRow
    BY <2>1 DEF Schedule, TypeOK
  <2>2. CASE over[s] # NoRow
    <3> DEFINE dated == [over[s] EXCEPT !.sched = t]
    <3>1. dated \in Row
      BY <1>1, <2>2, RowUpdates DEF TypeOK
    <3>2. [dated EXCEPT !.status = "draft"] \in Row
      BY <3>1, RowUpdates, Numbers
    <3>3. over' = [over EXCEPT ![s] = [dated EXCEPT !.status = "draft"]]
      BY <2>2 DEF Schedule, TypeOK
    <3> QED
      BY <3>2, <3>3 DEF TypeOK
  <2> QED
    BY <2>1, <2>2
<1> QED
  BY <1>4, <1>5 DEF Schedule, TypeOK, Requests

LEMMA ScheduleStubTyped ==
    ASSUME TypeOK, NEW u \in Users, ScheduleStub(u)
    PROVE  TypeOK'
<1> DEFINE row == [edit |-> Stub, status |-> "draft", sched |-> req[u].doc.sched,
                   stamp |-> now]
<1>1. Busy(u) /\ req[u].slug \in Slugs /\ req[u].doc \in Doc
  BY StatementRequest DEF Statement
<1>2. row \in Row
  BY <1>1, Numbers DEF Doc, Row, TypeOK
<1>3. req' \in Requests
  BY EndTyped DEF ScheduleStub
<1>4. over' \in [Slugs -> Row \cup {NoRow}]
  BY <1>1, <1>2 DEF ScheduleStub, TypeOK
<1> QED
  BY <1>3, <1>4 DEF ScheduleStub, TypeOK, Requests

LEMMA CancelTyped ==
    ASSUME TypeOK, NEW s \in Slugs, CancelScheduled(s)
    PROVE  TypeOK'
<1>1. [over[s] EXCEPT !.sched = Null] \in Row
  BY RowUpdates, Numbers DEF CancelScheduled, TypeOK, Null
<1>2. over' = [over EXCEPT ![s] = [over[s] EXCEPT !.sched = Null]]
  BY DEF CancelScheduled, TypeOK
<1> QED
  BY <1>1, <1>2 DEF CancelScheduled, TypeOK

LEMMA RunScheduledTyped ==
    ASSUME TypeOK, RunScheduled
    PROVE  TypeOK'
<1>1. \A s \in Slugs : Due(s) =>
        [over[s] EXCEPT !.status = "published", !.sched = Null] \in Row
  <2> SUFFICES ASSUME NEW s \in Slugs, Due(s)
               PROVE  [over[s] EXCEPT !.status = "published", !.sched = Null] \in Row
    OBVIOUS
  <2> DEFINE shown == [over[s] EXCEPT !.status = "published"]
  <2>1. shown \in Row
    BY RowUpdates, Numbers DEF Due, TypeOK
  <2>2. [shown EXCEPT !.sched = Null] \in Row
    BY <2>1, RowUpdates, Numbers DEF Null
  <2> QED
    BY <2>2
<1> QED
  BY <1>1 DEF RunScheduled, TypeOK

LEMMA TickTyped ==
    ASSUME TypeOK, Tick
    PROVE  TypeOK'
BY ConstantsAssumption DEF Tick, TypeOK

-----------------------------------------------------------------------------
(* The original stays restorable: what a step has to leave alone *)

\* The tables as the original's history sees them.
SameShown ==
    \A s \in Slugs :
        \/ over'[s] = over[s]
        \/ over[s] # NoRow /\ over'[s] # NoRow /\ over'[s].edit = over[s].edit

LEMMA TablesKept ==
    ASSUME StoredKnown, OriginalRestorable, record' = record, revs' = revs, SameShown
    PROVE  StoredKnown' /\ OriginalRestorable'
BY DEF StoredKnown, OriginalRestorable, OriginalKept, SameShown, Known

LEMMA PagesKept ==
    ASSUME TypeOK, PagesKnown, page' = page, record' = record
    PROVE  PagesKnown'
BY DEF PagesKnown, Known

\* A request is as ready after a step of another: records never change and revisions
\* are never deleted.
SameRequest(v) ==
    /\ Busy(v)' => Busy(v)
    /\ Busy(v)' => /\ req'[v].at = req[v].at
                   /\ req'[v].op = req[v].op
                   /\ req'[v].slug = req[v].slug
                   /\ req'[v].doc = req[v].doc

LEMMA ReadyKept ==
    ASSUME TypeOK, NEW v \in Users, RequestReady(v), SameRequest(v), backend' = backend,
           \A s \in Slugs : Known(s) => record'[s] = record[s],
           \A s \in Slugs : revs[s] \subseteq revs'[s]
    PROVE  RequestReady(v)'
<1> SUFFICES ASSUME Busy(v)' PROVE RequestReady(v)'
  BY DEF RequestReady
<1>1. Busy(v) /\ req[v].slug \in Slugs
  BY BusyIsRequest DEF SameRequest, Request
<1> QED
  BY <1>1 DEF RequestReady, SameRequest, HasOriginal, Known

LEMMA OthersReady ==
    ASSUME TypeOK, NEW u \in Users, \A v \in Users : RequestReady(v), backend' = backend,
           \A v \in Users \ {u} : req'[v] = req[v],
           \A s \in Slugs : Known(s) => record'[s] = record[s],
           \A s \in Slugs : revs[s] \subseteq revs'[s],
           RequestReady(u)'
    PROVE  \A v \in Users : RequestReady(v)'
<1> SUFFICES ASSUME NEW v \in Users \ {u} PROVE RequestReady(v)'
  OBVIOUS
<1>1. SameRequest(v)
  BY DEF SameRequest, Busy
<1> QED
  BY <1>1, ReadyKept

\* A step that writes no table and no page.
LEMMA OnlyRequest ==
    ASSUME TypeOK, OriginalInv, NEW u \in Users,
           UNCHANGED <<backend, record, over, revs, page>>,
           \A v \in Users \ {u} : req'[v] = req[v],
           RequestReady(u)'
    PROVE  OriginalInv'
<1>1. SameShown
  BY DEF SameShown
<1>2. \A v \in Users : RequestReady(v)'
  BY OthersReady DEF OriginalInv
<1> QED
  BY <1>1, <1>2, TablesKept, PagesKept DEF OriginalInv

-----------------------------------------------------------------------------
(* The original stays restorable: the steps *)

LEMMA OpenEditorKeeps ==
    ASSUME TypeOK, OriginalInv, NEW u \in Users, NEW s \in Slugs, OpenEditor(u, s)
    PROVE  OriginalInv'
<1>1. SameShown
  BY DEF OpenEditor, SameShown
<1>2. PagesKnown'
  BY DEF OpenEditor, OriginalInv, PagesKnown, TypeOK, Known
<1>3. \A v \in Users : RequestReady(v)'
  BY DEF OpenEditor, OriginalInv, RequestReady, Busy, Known, HasOriginal
<1> QED
  BY <1>1, <1>2, <1>3, TablesKept DEF OpenEditor, OriginalInv

\* The first step of a request that overwrites nothing yet.
LEMMA BeginKeeps ==
    ASSUME TypeOK, OriginalInv, NEW u \in Users, NEW op, NEW at, NEW s \in Slugs,
           NEW doc, NEW from, Begin(u, op, at, s, doc, from),
           \/ op = "create" /\ at = "entry"
           \/ op # "create" /\ at = "baseline" /\ Known(s)
           \/ op # "create" /\ at = "check" /\ backend = "sqlite" /\ Known(s)
    PROVE  OriginalInv'
<1>1. req'[u].op = op /\ req'[u].at = at /\ req'[u].slug = s
  BY DEF Begin, TypeOK
<1>2. RequestReady(u)'
  BY <1>1 DEF Begin, RequestReady, Known
<1>3. \A v \in Users \ {u} : req'[v] = req[v]
  BY DEF Begin, TypeOK
<1> QED
  BY <1>2, <1>3, OnlyRequest DEF Begin

LEMMA BeginStepsKeep ==
    ASSUME TypeOK, OriginalInv, NEW u \in Users, NEW s \in Slugs, NEW form \in Forms,
           \/ BeginSave(u, form)
           \/ BeginPut(u, s, form.status)
           \/ BeginCreate(u, s, form.status)
    PROVE  OriginalInv'
<1>0. FirstStep = "baseline" \/ (FirstStep = "check" /\ backend = "sqlite")
  BY DEF FirstStep
<1>1. CASE BeginSave(u, form)
  <2>1. page[u].slug \in Slugs /\ Known(page[u].slug)
    BY <1>1 DEF BeginSave, TypeOK, Page, OriginalInv, PagesKnown
  <2> QED
    BY <1>0, <1>1, <2>1, BeginKeeps DEF BeginSave
<1>2. CASE BeginPut(u, s, form.status)
  BY <1>0, <1>2, BeginKeeps DEF BeginPut
<1>3. CASE BeginCreate(u, s, form.status)
  BY <1>3, BeginKeeps DEF BeginCreate
<1> QED
  BY <1>1, <1>2, <1>3

LEMMA DeleteKeeps ==
    ASSUME TypeOK, OriginalInv, NEW u \in Users, NEW s \in Slugs, Delete(u, s)
    PROVE  OriginalInv'
<1>1. ~Busy(u)'
  BY DEF Delete, Busy, TypeOK, WriteSteps
<1>2. RequestReady(u)'
  BY <1>1 DEF RequestReady
<1>3. \A v \in Users \ {u} : req'[v] = req[v]
  BY DEF Delete, TypeOK
<1> QED
  BY <1>2, <1>3, OnlyRequest DEF Delete

\* A request that is over, and one that goes on to another statement.
LEMMA Ended ==
    ASSUME TypeOK, NEW u \in Users, End(u)
    PROVE  RequestReady(u)' /\ \A v \in Users \ {u} : req'[v] = req[v]
BY DEF End, TypeOK, RequestReady, Busy, Idle, WriteSteps

LEMMA GoesOn ==
    ASSUME TypeOK, NEW u \in Users, NEW at, Busy(u), Goto(u, at)
    PROVE  /\ req'[u].at = at
           /\ req'[u].op = req[u].op
           /\ req'[u].slug = req[u].slug
           /\ req'[u].doc = req[u].doc
           /\ \A v \in Users \ {u} : req'[v] = req[v]
BY BusyIsRequest DEF Goto, TypeOK, Request

\* The record is what makes room for the first override.
LEMMA InsertEntryKeeps ==
    ASSUME TypeOK, OriginalInv, NEW u \in Users, InsertEntry(u)
    PROVE  OriginalInv'
<1> DEFINE s == req[u].slug
<1>1. Busy(u) /\ s \in Slugs
  BY StatementRequest DEF Statement
<1>2. CASE Known(s)
  <2>1. End(u) /\ UNCHANGED <<backend, record, over, revs, page>>
    BY <1>2 DEF InsertEntry
  <2> QED
    BY <2>1, Ended, OnlyRequest
<1>3. CASE ~Known(s)
  <2>1. /\ record'[s] = [edit |-> req[u].doc.edit, status |-> "draft", stamp |-> now]
        /\ \A t \in Slugs \ {s} : record'[t] = record[t]
        /\ Goto(u, "upsert")
    BY <1>1, <1>3 DEF InsertEntry, TypeOK
  <2>2. Known(s)' /\ req[u].doc.edit = record'[s].edit
    <3>1. req[u].doc.edit \in Edits /\ now \in Times
      BY StatementRequest, Numbers DEF Statement, Doc, TypeOK
    <3> DEFINE new == [edit |-> req[u].doc.edit, status |-> "draft", stamp |-> now]
    <3>2. new.status = "draft" /\ NoRecord.status = "none" /\ new.edit = req[u].doc.edit
      BY DEF NoRecord
    <3>3. new # NoRecord
      BY <3>2
    <3>4. s' = s
      BY <1>1, <2>1, GoesOn
    <3> QED
      BY <2>1, <3>2, <3>3, <3>4 DEF Known
  <2>3. /\ req'[u].at = "upsert" /\ req'[u].op = req[u].op
        /\ req'[u].slug = s /\ req'[u].doc = req[u].doc
        /\ \A v \in Users \ {u} : req'[v] = req[v]
    BY <1>1, <2>1, GoesOn
  <2>4. req[u].op = "create"
    BY <1>1 DEF InsertEntry, OriginalInv, RequestReady
  <2>5. RequestReady(u)'
    BY <2>2, <2>3, <2>4 DEF RequestReady, Known
  <2>6. \A t \in Slugs : Known(t) => record'[t] = record[t]
    BY <1>3, <2>1
  <2>7. \A v \in Users : RequestReady(v)'
    BY <2>3, <2>5, <2>6, OthersReady DEF InsertEntry, OriginalInv
  <2>8. over[s] = NoRow /\ revs[s] = {}
    BY <1>1, <1>3 DEF OriginalInv, StoredKnown
  <2>9. StoredKnown' /\ OriginalRestorable'
    BY <2>1, <2>2, <2>3, <2>6, <2>8
    DEF InsertEntry, OriginalInv, StoredKnown, OriginalRestorable, OriginalKept, Known
  <2>10. PagesKnown'
    BY <2>6 DEF InsertEntry, OriginalInv, PagesKnown, Known, TypeOK, Page
  <2> QED
    BY <2>7, <2>9, <2>10 DEF OriginalInv
<1> QED
  BY <1>2, <1>3

\* Every statement after the first finds the record in place.
LEMMA LaterKnown ==
    ASSUME TypeOK, OriginalInv, NEW u \in Users, Statement(u), req[u].at # "entry"
    PROVE  Known(req[u].slug) /\ req[u].slug \in Slugs
BY StatementRequest DEF OriginalInv, RequestReady

\* What the baseline writes is the original itself.
LEMMA BaselineOverrideKeeps ==
    ASSUME TypeOK, OriginalInv, NEW u \in Users, BaselineOverride(u)
    PROVE  OriginalInv'
<1> DEFINE s == req[u].slug
<1>1. Busy(u) /\ s \in Slugs /\ Known(s)
  BY StatementRequest, LaterKnown DEF Statement, BaselineOverride
<1>2. /\ req'[u].at = "imported" /\ req'[u].op = req[u].op /\ req'[u].slug = s
      /\ \A v \in Users \ {u} : req'[v] = req[v]
  BY <1>1, GoesOn DEF BaselineOverride
<1>3. RequestReady(u)'
  BY <1>1, <1>2 DEF BaselineOverride, OriginalInv, RequestReady, Known
<1>4. \A v \in Users : RequestReady(v)'
  BY <1>2, <1>3, OthersReady DEF BaselineOverride, OriginalInv
<1>5. over' = [over EXCEPT ![s] = BaselineRow(s)]
  BY DEF BaselineOverride
<1>6. over[s] = NoRow => BaselineRow(s).edit = record[s].edit
  BY DEF BaselineRow
<1>7. StoredKnown'
  BY <1>1, <1>5 DEF BaselineOverride, OriginalInv, StoredKnown, Known, TypeOK
<1>8. OriginalRestorable'
  <2> SUFFICES ASSUME NEW t \in Slugs PROVE OriginalKept(t)'
    BY DEF OriginalRestorable
  <2>1. CASE t = s /\ over[s] = NoRow
    BY <1>1, <1>5, <1>6, <2>1 DEF OriginalKept, BaselineOverride, TypeOK
  <2>2. CASE ~(t = s /\ over[s] = NoRow)
    <3>1. over'[t] = over[t]
      BY <1>1, <1>5, <2>2 DEF BaselineRow, TypeOK
    <3> QED
      BY <3>1 DEF OriginalKept, BaselineOverride, OriginalInv, OriginalRestorable
  <2> QED
    BY <2>1, <2>2
<1>9. PagesKnown'
  BY PagesKept DEF BaselineOverride, OriginalInv
<1> QED
  BY <1>4, <1>7, <1>8, <1>9 DEF OriginalInv

\* The imported revision is what every overwrite waits for.
LEMMA BaselineRevisionKeeps ==
    ASSUME TypeOK, OriginalInv, NEW u \in Users, BaselineRevision(u)
    PROVE  OriginalInv'
<1> DEFINE s == req[u].slug
<1>1. Busy(u) /\ s \in Slugs /\ Known(s)
  BY StatementRequest, LaterKnown DEF Statement, BaselineRevision
<1>2. revs' = [revs EXCEPT ![s] = revs[s] \cup {BaselineDoc(s)}] /\ record' = record
  BY <1>1 DEF BaselineRevision, TypeOK
<1>3. BaselineDoc(s) \in revs'[s] /\ BaselineDoc(s).edit = record[s].edit
  BY <1>1, <1>2 DEF BaselineDoc, TypeOK
<1>4. \A t \in Slugs : revs[t] \subseteq revs'[t]
  BY <1>1, <1>2 DEF TypeOK
<1>5. RequestReady(u)' /\ \A v \in Users \ {u} : req'[v] = req[v]
  <2>1. CASE End(u)
    BY <2>1, Ended
  <2>2. CASE ~End(u)
    <3>1. req[u].op # "create"
      BY <1>1 DEF BaselineRevision, OriginalInv, RequestReady
    <3>2. PICK at \in {"check", "upsert"} : Goto(u, at)
      BY <2>2 DEF BaselineRevision, AfterBaseline
    <3>3. /\ req'[u].at = at /\ req'[u].op = req[u].op /\ req'[u].slug = s
          /\ \A v \in Users \ {u} : req'[v] = req[v]
      BY <1>1, <3>2, GoesOn
    <3>4. HasOriginal(req[u].slug)'
      BY <1>2, <1>3, <3>3 DEF HasOriginal
    <3> QED
      BY <1>1, <1>2, <3>1, <3>3, <3>4 DEF RequestReady, Known
  <2> QED
    BY <2>1, <2>2
<1>6. \A v \in Users : RequestReady(v)'
  BY <1>2, <1>4, <1>5, OthersReady DEF BaselineRevision, OriginalInv
<1>7. StoredKnown' /\ PagesKnown'
  BY <1>1, <1>2 DEF BaselineRevision, OriginalInv, StoredKnown, PagesKnown, Known, TypeOK
<1>8. OriginalRestorable'
  BY <1>2, <1>4 DEF BaselineRevision, OriginalInv, OriginalRestorable, OriginalKept
<1> QED
  BY <1>6, <1>7, <1>8 DEF OriginalInv

LEMMA CheckKeeps ==
    ASSUME TypeOK, OriginalInv, NEW u \in Users, Check(u)
    PROVE  OriginalInv'
<1>1. Busy(u) /\ req[u].slug \in Slugs /\ Known(req[u].slug)
  BY StatementRequest, LaterKnown DEF Statement, Check
<1>2. CASE Stale(u)
  <2>1. ~Busy(u)' /\ \A v \in Users \ {u} : req'[v] = req[v]
    BY <1>2 DEF Check, Busy, TypeOK, WriteSteps
  <2> QED
    BY <2>1, OnlyRequest DEF Check, RequestReady
<1>3. CASE ~Stale(u)
  <2> DEFINE next == IF backend = "sqlite" THEN "baseline" ELSE "upsert"
  <2>1. /\ req'[u].at = next /\ req'[u].op = req[u].op /\ req'[u].slug = req[u].slug
        /\ \A v \in Users \ {u} : req'[v] = req[v]
    BY <1>1, <1>3, GoesOn DEF Check
  <2>2. backend \in {"sqlite", "d1"}
    BY ConstantsAssumption DEF TypeOK
  <2>3. req[u].op # "create" /\ (backend = "d1" => HasOriginal(req[u].slug))
    BY <1>1 DEF Check, OriginalInv, RequestReady
  <2>4. RequestReady(u)'
    BY <1>1, <2>1, <2>2, <2>3 DEF Check, RequestReady, HasOriginal, Known
  <2> QED
    BY <2>1, <2>4, OnlyRequest DEF Check
<1> QED
  BY <1>2, <1>3

\* The overwrite itself: it was made ready, or writes the original.
LEMMA UpsertOverrideKeeps ==
    ASSUME TypeOK, OriginalInv, NEW u \in Users, UpsertOverride(u)
    PROVE  OriginalInv'
<1> DEFINE s == req[u].slug
<1>1. Busy(u) /\ s \in Slugs /\ Known(s)
  BY StatementRequest, LaterKnown DEF Statement, UpsertOverride
<1>2. CASE Refuses(u)
  <2>1. End(u) /\ UNCHANGED <<backend, record, over, revs, page>>
    BY <1>2 DEF UpsertOverride, Refuses
  <2> QED
    BY <2>1, Ended, OnlyRequest
<1>3. CASE ~Refuses(u)
  <2>1. /\ over'[s].edit = req[u].doc.edit
        /\ \A t \in Slugs \ {s} : over'[t] = over[t]
    <3> DEFINE row == [edit |-> req[u].doc.edit, status |-> req[u].doc.status,
                       sched |-> req[u].doc.sched, stamp |-> now]
    <3>1. over' = [over EXCEPT ![s] = row]
      BY <1>3 DEF UpsertOverride, Refuses
    <3>2. row.edit = req[u].doc.edit
      OBVIOUS
    <3> HIDE DEF row
    <3> QED
      BY <1>1, <3>1, <3>2 DEF TypeOK
  <2>2. \A v \in Users : req'[v] = AfterUpsert(u, v)
    BY <1>3 DEF UpsertOverride, Refuses, AfterUpsert
  <2>3. OriginalRestorable'
    <3>1. req[u].op = "create" => req[u].doc.edit = record[s].edit
      BY <1>1 DEF UpsertOverride, OriginalInv, RequestReady
    <3>2. req[u].op # "create" => HasOriginal(s)
      BY <1>1 DEF UpsertOverride, OriginalInv, RequestReady
    <3> SUFFICES ASSUME NEW t \in Slugs PROVE OriginalKept(t)'
      BY DEF OriginalRestorable
    <3>3. CASE t = s
      BY <2>1, <3>1, <3>2, <3>3 DEF UpsertOverride, OriginalKept, HasOriginal
    <3>4. CASE t # s
      BY <2>1, <3>4 DEF UpsertOverride, OriginalInv, OriginalRestorable, OriginalKept
    <3> QED
      BY <3>3, <3>4
  <2>4. StoredKnown'
    BY <1>1, <2>1 DEF UpsertOverride, OriginalInv, StoredKnown, Known
  <2>5. PagesKnown'
    BY PagesKept DEF UpsertOverride, OriginalInv
  <2>6. RequestReady(u)'
    <3>1. /\ req'[u].at = IF req[u].op = "create" THEN "revision" ELSE "clear"
          /\ req'[u].op = req[u].op /\ req'[u].slug = s
      BY <1>1, <2>2, BusyIsRequest DEF AfterUpsert, Request
    <3> QED
      BY <1>1, <3>1 DEF UpsertOverride, RequestReady, Known
  <2>7. ASSUME NEW v \in Users \ {u} PROVE RequestReady(v)'
    <3>1. CASE Busy(v)
      <4>1. /\ req'[v].at = req[v].at /\ req'[v].op = req[v].op
            /\ req'[v].slug = req[v].slug /\ req'[v].doc = req[v].doc
        BY <2>2, <3>1, BusyIsRequest DEF AfterUpsert, Request
      <4>2. SameRequest(v)
        BY <3>1, <4>1 DEF SameRequest
      <4> QED
        BY <4>2, ReadyKept DEF UpsertOverride, OriginalInv
    <3>2. CASE ~Busy(v)
      <4>1. req'[v] = req[v]
        BY <2>2, <3>2 DEF AfterUpsert
      <4> QED
        BY <3>2, <4>1 DEF RequestReady, Busy
    <3> QED
      BY <3>1, <3>2
  <2> QED
    BY <2>3, <2>4, <2>5, <2>6, <2>7 DEF OriginalInv
<1> QED
  BY <1>2, <1>3

LEMMA TermsKeep ==
    ASSUME TypeOK, OriginalInv, NEW u \in Users, ClearTerms(u) \/ InsertTerms(u)
    PROVE  OriginalInv'
<1>1. Busy(u) /\ Known(req[u].slug) /\ req[u].op # "create"
  BY StatementRequest, LaterKnown
  DEF Statement, ClearTerms, InsertTerms, OriginalInv, RequestReady
<1>2. PICK at \in {"terms", "revision"} : Goto(u, at)
  BY DEF ClearTerms, InsertTerms
<1>3. /\ req'[u].at = at /\ req'[u].op = req[u].op /\ req'[u].slug = req[u].slug
      /\ \A v \in Users \ {u} : req'[v] = req[v]
  BY <1>1, <1>2, GoesOn
<1>4. UNCHANGED <<backend, record, over, revs, page>>
  BY DEF ClearTerms, InsertTerms
<1>5. RequestReady(u)'
  BY <1>1, <1>3, <1>4 DEF RequestReady, Known
<1> QED
  BY <1>3, <1>4, <1>5, OnlyRequest

LEMMA InsertRevisionKeeps ==
    ASSUME TypeOK, OriginalInv, NEW u \in Users, InsertRevision(u)
    PROVE  OriginalInv'
<1> DEFINE s == req[u].slug
<1>1. Busy(u) /\ s \in Slugs /\ Known(s)
  BY StatementRequest, LaterKnown DEF Statement, InsertRevision
<1>2. /\ \A t \in Slugs : revs[t] \subseteq revs'[t]
      /\ \A t \in Slugs \ {s} : revs'[t] = revs[t]
      /\ record' = record /\ over' = over
  BY <1>1 DEF InsertRevision, TypeOK
<1>3. End(u)
  BY DEF InsertRevision
<1>4. \A v \in Users : RequestReady(v)'
  BY <1>2, <1>3, Ended, OthersReady DEF InsertRevision, OriginalInv
<1>5. StoredKnown' /\ OriginalRestorable'
  BY <1>1, <1>2 DEF OriginalInv, StoredKnown, OriginalRestorable, OriginalKept, Known
<1>6. PagesKnown'
  BY <1>2 DEF InsertRevision, OriginalInv, PagesKnown, Known, TypeOK
<1> QED
  BY <1>4, <1>5, <1>6 DEF OriginalInv

LEMMA KilledKeeps ==
    ASSUME TypeOK, OriginalInv, NEW u \in Users, Killed(u)
    PROVE  OriginalInv'
BY Ended, OnlyRequest DEF Killed

\* Scheduling moves dates and statuses, or makes up the stub.
LEMMA SchedulingKeeps ==
    ASSUME TypeOK, OriginalInv,
           UNCHANGED <<backend, record, revs, page>>, SameShown,
           \A v \in Users : RequestReady(v)'
    PROVE  OriginalInv'
BY TablesKept, PagesKept DEF OriginalInv

LEMMA ScheduleKeeps ==
    ASSUME TypeOK, OriginalInv, NEW u \in Users, NEW s \in Slugs, NEW t \in 1..MaxNow,
           Schedule(u, s, t)
    PROVE  OriginalInv'
<1>1. /\ req'[u].at = "stub" /\ req'[u].op = "schedule" /\ req'[u].slug = s
      /\ \A v \in Users \ {u} : req'[v] = req[v]
  BY DEF Schedule, TypeOK
<1>2. RequestReady(u)'
  BY <1>1 DEF Schedule, RequestReady, Known
<1>3. \A v \in Users : RequestReady(v)'
  BY <1>1, <1>2, OthersReady DEF Schedule, OriginalInv
<1>4. SameShown
  <2>1. CASE over[s] = NoRow
    BY <2>1 DEF Schedule, SameShown
  <2>2. CASE over[s] # NoRow
    <3> DEFINE dated == [over[s] EXCEPT !.sched = t]
               draft == [dated EXCEPT !.status = "draft"]
    <3>1. over[s] \in Row /\ t \in Times
      BY <2>2, Numbers DEF TypeOK
    <3>2. dated \in Row /\ dated.edit = over[s].edit
      BY <3>1, RowUpdates DEF Row
    <3>3. draft.edit = over[s].edit /\ draft.status = "draft"
      BY <3>2 DEF Row
    <3>4. draft # NoRow
      <4>1. draft \in Row
        BY <3>2, RowUpdates, Numbers
      <4>2. draft.status = "draft" /\ NoRow.status = "none"
        BY <3>3 DEF NoRow
      <4> QED
        BY <4>2
    <3>5. over' = [over EXCEPT ![s] = draft]
      BY <2>2 DEF Schedule, TypeOK
    <3> QED
      BY <2>2, <3>3, <3>4, <3>5 DEF SameShown, TypeOK
  <2> QED
    BY <2>1, <2>2
<1> QED
  BY <1>3, <1>4, SchedulingKeeps DEF Schedule

LEMMA ScheduleStubKeeps ==
    ASSUME TypeOK, OriginalInv, NEW u \in Users, ScheduleStub(u)
    PROVE  OriginalInv'
<1> DEFINE s == req[u].slug
<1>1. Busy(u) /\ s \in Slugs /\ Known(s)
  BY StatementRequest, LaterKnown DEF Statement, ScheduleStub
<1>2. \A v \in Users : RequestReady(v)'
  BY Ended, OthersReady DEF ScheduleStub, OriginalInv
<1>3. CASE over' = over
  BY <1>2, <1>3, SchedulingKeeps DEF ScheduleStub, SameShown
<1>4. CASE over' # over
  <2>1. /\ over'[s].edit = Stub
        /\ \A t \in Slugs \ {s} : over'[t] = over[t]
    BY <1>1, <1>4 DEF ScheduleStub, TypeOK
  <2>2. StoredKnown' /\ OriginalRestorable'
    BY <1>1, <2>1
    DEF ScheduleStub, OriginalInv, StoredKnown, OriginalRestorable, OriginalKept, Known
  <2>3. PagesKnown'
    BY PagesKept DEF ScheduleStub, OriginalInv
  <2> QED
    BY <1>2, <2>2, <2>3 DEF OriginalInv
<1> QED
  BY <1>3, <1>4

\* A request is as ready when no request moves.
LEMMA StillReady ==
    ASSUME OriginalInv, UNCHANGED <<backend, record, revs, req>>
    PROVE  \A v \in Users : RequestReady(v)'
BY DEF OriginalInv, RequestReady, Busy, Known, HasOriginal

LEMMA CancelKeeps ==
    ASSUME TypeOK, OriginalInv, NEW s \in Slugs, CancelScheduled(s)
    PROVE  OriginalInv'
<1> DEFINE row == [over[s] EXCEPT !.sched = Null]
<1>1. over[s] \in Row /\ over[s] # NoRow
  BY DEF CancelScheduled, TypeOK
<1>2. row \in Row /\ row.edit = over[s].edit /\ row.status = over[s].status
  BY <1>1, RowUpdates, Numbers DEF Row, Null
<1>3. row # NoRow
  <2>1. DOMAIN row = {"edit", "status", "sched", "stamp"} /\ DOMAIN NoRow = {"status"}
    BY <1>2 DEF Row, NoRow
  <2> QED
    BY <2>1
<1>4. over' = [over EXCEPT ![s] = row]
  BY DEF CancelScheduled, TypeOK
<1>5. SameShown
  BY <1>1, <1>2, <1>3, <1>4 DEF SameShown, TypeOK
<1> QED
  BY <1>5, StillReady, SchedulingKeeps DEF CancelScheduled

LEMMA RunScheduledKeeps ==
    ASSUME TypeOK, OriginalInv, RunScheduled
    PROVE  OriginalInv'
<1>1. SameShown
  <2> SUFFICES ASSUME NEW s \in Slugs, Due(s)
               PROVE  over'[s] # NoRow /\ over'[s].edit = over[s].edit
    BY DEF SameShown, RunScheduled, Due
  <2> DEFINE shown == [over[s] EXCEPT !.status = "published"]
             row == [shown EXCEPT !.sched = Null]
  <2>1. shown \in Row /\ shown.edit = over[s].edit /\ shown.status = "published"
    BY RowUpdates, Numbers DEF Due, TypeOK, Row
  <2>2. row.edit = over[s].edit /\ row.status = "published"
    BY <2>1 DEF Row
  <2>3. row # NoRow
    <3>1. NoRow.status = "none"
      BY DEF NoRow
    <3> QED
      BY <2>2, <3>1
  <2>4. over'[s] = row
    BY DEF RunScheduled
  <2> QED
    BY <2>2, <2>3, <2>4
<1> QED
  BY <1>1, StillReady, SchedulingKeeps DEF RunScheduled

LEMMA TickKeeps ==
    ASSUME TypeOK, OriginalInv, Tick
    PROVE  OriginalInv'
BY StillReady, SchedulingKeeps DEF Tick, SameShown

-----------------------------------------------------------------------------
(* The theorems *)

LEMMA OriginalInit == Init => OriginalInv
<1> SUFFICES ASSUME Init PROVE OriginalInv
  OBVIOUS
<1>1. \A u \in Users : ~Busy(u) /\ page[u] = NoPage
  BY DEF Init, Busy, Idle, WriteSteps
<1>2. \A s \in Slugs : over[s] = NoRow /\ revs[s] = {}
  BY DEF Init
<1> QED
  BY <1>1, <1>2
  DEF OriginalInv, StoredKnown, PagesKnown, RequestReady, OriginalRestorable, OriginalKept

LEMMA StatementTyped ==
    ASSUME TypeOK, OriginalInv, NEW u \in Users, Statement(u)
    PROVE  TypeOK'
<1>1. CASE BaselineOverride(u)
  BY <1>1, LaterKnown, BaselineOverrideTyped DEF Statement, BaselineOverride
<1>2. CASE BaselineRevision(u)
  BY <1>2, LaterKnown, BaselineRevisionTyped DEF Statement, BaselineRevision
<1>3. CASE ~BaselineOverride(u) /\ ~BaselineRevision(u)
  BY <1>3, InsertEntryTyped, CheckTyped, UpsertOverrideTyped, TermsTyped,
     InsertRevisionTyped, ScheduleStubTyped DEF Statement
<1> QED
  BY <1>1, <1>2, <1>3

LEMMA StatementKeeps ==
    ASSUME TypeOK, OriginalInv, NEW u \in Users, Statement(u)
    PROVE  OriginalInv'
BY InsertEntryKeeps, BaselineOverrideKeeps, BaselineRevisionKeeps, CheckKeeps,
   UpsertOverrideKeeps, TermsKeep, InsertRevisionKeeps, ScheduleStubKeeps DEF Statement

LEMMA InvariantStep ==
    ASSUME TypeOK, OriginalInv, [Next]_vars
    PROVE  TypeOK' /\ OriginalInv'
<1>1. ASSUME NEW u \in Users, NEW s \in Slugs,
             OpenEditor(u, s) \/ Delete(u, s) \/ BeginView(u, s)
      PROVE  TypeOK' /\ OriginalInv'
  <2>1. CASE BeginView(u, s)
    <3>1. TypeOK'
      BY <2>1, BeginViewTyped
    <3>2. Known(s) /\ Begin(u, "view", "baseline", s, BaselineDoc(s), NoPage)
      BY <2>1 DEF BeginView
    <3> QED
      BY <3>1, <3>2, BeginKeeps
  <2> QED
    BY <1>1, <2>1, OpenEditorTyped, OpenEditorKeeps, DeleteTyped, DeleteKeeps
<1>2. ASSUME NEW u \in Users, NEW form \in Forms, BeginSave(u, form)
      PROVE  TypeOK' /\ OriginalInv'
  <2>1. page[u].slug \in Slugs
    BY <1>2 DEF BeginSave, TypeOK, Page
  <2> QED
    BY <1>2, <2>1, BeginSaveTyped, BeginStepsKeep
<1>3. ASSUME NEW u \in Users, NEW s \in Slugs, NEW form \in Forms,
             BeginPut(u, s, form.status) \/ BeginCreate(u, s, form.status)
      PROVE  TypeOK' /\ OriginalInv'
  BY <1>3, BeginPutTyped, BeginStepsKeep
<1>4. ASSUME NEW u \in Users, NEW s \in Slugs, NEW doc \in revs[s], BeginRestore(u, s, doc)
      PROVE  TypeOK' /\ OriginalInv'
  <2>1. Known(s)
    BY DEF OriginalInv, StoredKnown
  <2>2. Begin(u, "restore", "baseline", s, doc, NoPage)
    BY <1>4 DEF BeginRestore
  <2> QED
    BY <1>4, <2>1, <2>2, BeginRestoreTyped, BeginKeeps
<1>5. ASSUME NEW u \in Users, NEW s \in Slugs, NEW t \in 1..MaxNow, Schedule(u, s, t)
      PROVE  TypeOK' /\ OriginalInv'
  BY <1>5, ScheduleTyped, ScheduleKeeps
<1>6. ASSUME NEW u \in Users, Statement(u) \/ Killed(u)
      PROVE  TypeOK' /\ OriginalInv'
  BY <1>6, StatementTyped, StatementKeeps, KilledTyped, KilledKeeps
<1>7. ASSUME NEW s \in Slugs, CancelScheduled(s)
      PROVE  TypeOK' /\ OriginalInv'
  BY <1>7, CancelTyped, CancelKeeps
<1>8. CASE RunScheduled
  BY <1>8, RunScheduledTyped, RunScheduledKeeps
<1>9. CASE Tick
  BY <1>9, TickTyped, TickKeeps
<1>10. CASE UNCHANGED vars
  <2>1. TypeOK'
    BY <1>10 DEF vars, TypeOK
  <2>2. OriginalInv'
    BY <1>10, StillReady, SchedulingKeeps DEF vars, SameShown
  <2> QED
    BY <2>1, <2>2
<1> QED
  BY <1>1, <1>2, <1>3, <1>4, <1>5, <1>6, <1>7, <1>8, <1>9, <1>10 DEF Next

\* Every reachable state is typed, and every request that is about to overwrite a
\* slug has seen to it that the history holds the slug's original.
THEOREM ContentInvariant == Spec => [](TypeOK /\ OriginalInv)
<1>1. Init => TypeOK /\ OriginalInv
  BY TypeInit, OriginalInit
<1>2. (TypeOK /\ OriginalInv) /\ [Next]_vars => (TypeOK /\ OriginalInv)'
  BY InvariantStep
<1> QED
  BY <1>1, <1>2, PTL DEF Spec

\* The types of the tables, of the pages and of the requests on their way.
THEOREM ContentTyped == Spec => []TypeOK
BY ContentInvariant, PTL

\* What a record said when it was imported or created can always be restored: on
\* both backends, whoever writes at the same time, and whatever is killed between two
\* statements.
THEOREM OriginalStays == Spec => []OriginalRestorable
<1>1. TypeOK /\ OriginalInv => OriginalRestorable
  BY DEF OriginalInv
<1> QED
  BY <1>1, ContentInvariant, PTL

-----------------------------------------------------------------------------
(* What a slug shows is in its history: the invariant *)

\* A handler that has written the row of a slug and not all that belongs to it.
Written == {"clear", "terms", "revision"}

\* Assignments come after the row.
RowsFirst == \A s \in Slugs : over[s] = NoRow => terms[s] = {} /\ Writing(s) = {}

SettledRows ==
    \A s \in settled :
        /\ over[s] # NoRow /\ Writing(s) = {}
        /\ \E r \in revs[s] : r.edit = over[s].edit /\ r.terms = terms[s]

\* A handler nothing disturbs finds what it has written.
AloneWrites(u) ==
    req[u].at \in Written /\ req[u].alone =>
        /\ Writing(req[u].slug) = {u}
        /\ over[req[u].slug].edit = req[u].doc.edit
        /\ req[u].at = "terms" => terms[req[u].slug] = {}
        /\ req[u].at = "revision" => terms[req[u].slug] = req[u].doc.terms

WritesInv == RowsFirst /\ SettledRows /\ \A u \in Users : AloneWrites(u)

\* On SQLite one handler runs at a time.  A create submits no terms, and there it has the
\* slug to itself.
OneHandler == backend = "sqlite" => \A u, v \in Users : Busy(u) /\ Busy(v) => u = v

CreatesAlone(u) ==
    Busy(u) /\ req[u].op = "create" =>
        /\ req[u].doc.terms = {}
        /\ backend = "sqlite" /\ req[u].at = "upsert" => over[req[u].slug] = NoRow

HandlersInv == OneHandler /\ \A u \in Users : CreatesAlone(u)

-----------------------------------------------------------------------------
(* What a slug shows is in its history: steps that write no part of it *)

\* Rows stay, and so do their texts.
RowsStay ==
    \A s \in Slugs : over[s] # NoRow => over'[s] # NoRow /\ over'[s].edit = over[s].edit

Quiet ==
    /\ terms' = terms /\ settled' = settled
    /\ \A s \in Slugs : revs[s] \subseteq revs'[s]
    /\ RowsStay
    /\ \A v \in Users : req'[v].at \in Written => req'[v] = req[v]

LEMMA WriterTyped ==
    ASSUME TypeOK, NEW u \in Users, req[u].at \in Written
    PROVE  /\ Busy(u) /\ req[u].slug \in Slugs /\ req[u].doc \in Doc
           /\ u \in Writing(req[u].slug)
<1>1. Busy(u)
  BY DEF Busy, Written, WriteSteps
<1>2. req[u] \in Request
  BY <1>1, BusyIsRequest
<1> QED
  BY <1>1, <1>2 DEF Request, Writing, Written

LEMMA QuietKeeps ==
    ASSUME TypeOK, WritesInv, Quiet
    PROVE  WritesInv'
<1>1. \A s \in Slugs : Writing(s)' \subseteq Writing(s)
  BY DEF Quiet, Writing, Written
<1>2. RowsFirst'
  BY <1>1 DEF WritesInv, RowsFirst, Quiet, RowsStay
<1>3. SettledRows'
  <2> SUFFICES ASSUME NEW s \in settled
               PROVE  /\ over'[s] # NoRow /\ Writing(s)' = {}
                      /\ \E r \in revs'[s] : r.edit = over'[s].edit /\ r.terms = terms'[s]
    BY DEF SettledRows, Quiet
  <2>1. s \in Slugs
    BY DEF TypeOK
  <2>2. /\ over[s] # NoRow /\ Writing(s) = {}
        /\ \E r \in revs[s] : r.edit = over[s].edit /\ r.terms = terms[s]
    BY DEF WritesInv, SettledRows
  <2> QED
    BY <1>1, <2>1, <2>2 DEF Quiet, RowsStay
<1>4. ASSUME NEW u \in Users PROVE AloneWrites(u)'
  <2> SUFFICES ASSUME req'[u].at \in Written, req'[u].alone PROVE AloneWrites(u)'
    BY DEF AloneWrites
  <2>1. req'[u] = req[u] /\ AloneWrites(u)
    BY DEF Quiet, WritesInv
  <2>2. PICK s \in Slugs : s = req[u].slug /\ u \in Writing(s)
    BY <2>1, WriterTyped
  <2>3. /\ Writing(s) = {u} /\ over[s].edit = req[u].doc.edit
        /\ req[u].at = "terms" => terms[s] = {}
        /\ req[u].at = "revision" => terms[s] = req[u].doc.terms
    BY <2>1, <2>2 DEF AloneWrites
  <2>4. over[s] # NoRow
    BY <2>2 DEF WritesInv, RowsFirst
  <2>5. Writing(s)' = {u}
    <3>1. u \in Writing(s)'
      BY <2>1, <2>2 DEF Writing
    <3> QED
      BY <1>1, <2>3, <3>1
  <2>6. over'[s].edit = req[u].doc.edit /\ terms' = terms
    BY <2>3, <2>4 DEF Quiet, RowsStay
  <2> QED
    BY <2>1, <2>2, <2>3, <2>5, <2>6 DEF AloneWrites
<1> QED
  BY <1>2, <1>3, <1>4 DEF WritesInv

\* A request moves on outside the part in question, or ends.
LEMMA RequestsQuiet ==
    ASSUME TypeOK, NEW u \in Users, \A v \in Users \ {u} : req'[v] = req[v],
           req'[u].at \notin Written
    PROVE  \A v \in Users : req'[v].at \in Written => req'[v] = req[v]
  OBVIOUS

LEMMA BeginsQuiet ==
    ASSUME TypeOK, NEW u \in Users,
           \/ \E s \in Slugs : OpenEditor(u, s) \/ Delete(u, s) \/ BeginView(u, s)
           \/ \E form \in Forms : BeginSave(u, form)
           \/ \E s \in Slugs, form \in Forms :
                BeginPut(u, s, form.status) \/ BeginCreate(u, s, form.status)
           \/ \E s \in Slugs : \E doc \in revs[s] : BeginRestore(u, s, doc)
    PROVE  Quiet
<1>1. RowsStay /\ terms' = terms /\ settled' = settled /\ revs' = revs
  BY DEF OpenEditor, Delete, BeginView, BeginSave, BeginPut, BeginCreate, BeginRestore, Begin,
         RowsStay
<1>2. CASE \E s \in Slugs : OpenEditor(u, s)
  BY <1>1, <1>2 DEF OpenEditor, Quiet
<1>3. CASE \E s \in Slugs : Delete(u, s)
  BY <1>1, <1>3 DEF Delete, Quiet, TypeOK, Written
<1>4. ASSUME NEW op, NEW at, NEW s, NEW doc, NEW from, Begin(u, op, at, s, doc, from),
             at \in {"check", "baseline", "entry"}
      PROVE  Quiet
  BY <1>1, <1>4 DEF Begin, Quiet, TypeOK, Written
<1>5. FirstStep \in {"check", "baseline"}
  BY DEF FirstStep
<1> QED
  BY <1>2, <1>3, <1>4, <1>5 DEF BeginView, BeginSave, BeginPut, BeginCreate, BeginRestore

LEMMA StatementsQuiet ==
    ASSUME TypeOK, NEW u \in Users,
           \/ InsertEntry(u) \/ BaselineOverride(u) \/ BaselineRevision(u) \/ Check(u)
           \/ ScheduleStub(u) \/ Killed(u)
    PROVE  Quiet
<1>1. Busy(u) /\ req[u].slug \in Slugs
  BY StatementRequest, BusyIsRequest DEF Statement, Killed, Request
<1>2. RowsStay
  BY <1>1 DEF InsertEntry, BaselineOverride, BaselineRow, BaselineRevision, Check, ScheduleStub,
              Killed, RowsStay, TypeOK
<1>3. terms' = terms /\ settled' = settled /\ \A s \in Slugs : revs[s] \subseteq revs'[s]
  BY <1>1 DEF InsertEntry, BaselineOverride, BaselineRevision, Check, ScheduleStub, Killed, TypeOK
<1>4. /\ \A v \in Users \ {u} : req'[v] = req[v]
      /\ req'[u].at \notin Written
  <2>1. CASE End(u)
    BY <2>1, Ended DEF End, Idle, Written, TypeOK
  <2>2. ASSUME NEW at, Goto(u, at), at \notin Written
        PROVE  (\A v \in Users \ {u} : req'[v] = req[v]) /\ req'[u].at \notin Written
    BY <1>1, <2>2, GoesOn
  <2>3. CASE InsertEntry(u)
    BY <2>1, <2>2, <2>3 DEF InsertEntry, Written
  <2>4. CASE BaselineOverride(u)
    BY <2>2, <2>4 DEF BaselineOverride, Written
  <2>5. CASE BaselineRevision(u)
    BY <2>1, <2>2, <2>5 DEF BaselineRevision, AfterBaseline, Written
  <2>6. CASE Check(u)
    <3>1. CASE Stale(u)
      BY <2>6, <3>1 DEF Check, Written, TypeOK
    <3>2. CASE ~Stale(u)
      BY <2>2, <2>6, <3>2 DEF Check, Written
    <3> QED
      BY <3>1, <3>2
  <2>7. CASE ScheduleStub(u) \/ Killed(u)
    BY <2>1, <2>7 DEF ScheduleStub, Killed
  <2> QED
    BY <2>3, <2>4, <2>5, <2>6, <2>7
<1> QED
  BY <1>2, <1>3, <1>4, RequestsQuiet DEF Quiet

LEMMA SchedulingQuiet ==
    ASSUME TypeOK,
           \/ \E u \in Users, s \in Slugs, t \in 1..MaxNow : Schedule(u, s, t)
           \/ \E s \in Slugs : CancelScheduled(s)
           \/ RunScheduled \/ Tick \/ UNCHANGED vars
    PROVE  Quiet
<1>1. ASSUME NEW u \in Users, NEW s \in Slugs, NEW t \in 1..MaxNow, Schedule(u, s, t)
      PROVE  Quiet
  <2>1. RowsStay
    <3>1. CASE over[s] = NoRow
      BY <1>1, <3>1 DEF Schedule, RowsStay
    <3>2. CASE over[s] # NoRow
      <4> DEFINE row == [over[s] EXCEPT !.sched = t, !.status = "draft"]
      <4>1. over' = [over EXCEPT ![s] = row]
        BY <1>1, <3>2 DEF Schedule, TypeOK
      <4>2. row # NoRow /\ row.edit = over[s].edit
        BY <3>2 DEF TypeOK, Row, NoRow
      <4> HIDE DEF row
      <4> QED
        BY <4>1, <4>2 DEF RowsStay, TypeOK
    <3> QED
      BY <3>1, <3>2
  <2>2. (\A v \in Users \ {u} : req'[v] = req[v]) /\ req'[u].at = "stub"
    BY <1>1 DEF Schedule, TypeOK
  <2> QED
    BY <1>1, <2>1, <2>2, RequestsQuiet DEF Schedule, Quiet, Written
<1>2. ASSUME NEW s \in Slugs, CancelScheduled(s)
      PROVE  Quiet
  <2> DEFINE row == [over[s] EXCEPT !.sched = Null]
  <2>1. over' = [over EXCEPT ![s] = row]
    BY <1>2 DEF CancelScheduled, TypeOK
  <2>2. row # NoRow /\ row.edit = over[s].edit
    BY <1>2 DEF CancelScheduled, TypeOK, Row, NoRow
  <2> HIDE DEF row
  <2>3. RowsStay
    BY <2>1, <2>2 DEF RowsStay, TypeOK
  <2> QED
    BY <1>2, <2>3 DEF CancelScheduled, Quiet
<1>3. CASE RunScheduled
  <2>1. ASSUME NEW s \in Slugs, over[s] # NoRow
        PROVE  over'[s] # NoRow /\ over'[s].edit = over[s].edit
    <3> DEFINE row == [over[s] EXCEPT !.status = "published", !.sched = Null]
    <3>1. over'[s] = row \/ over'[s] = over[s]
      BY <1>3 DEF RunScheduled
    <3>2. row # NoRow /\ row.edit = over[s].edit
      BY <2>1 DEF TypeOK, Row, NoRow
    <3> HIDE DEF row
    <3> QED
      BY <2>1, <3>1, <3>2
  <2> QED
    BY <1>3, <2>1 DEF RunScheduled, Quiet, RowsStay
<1>4. CASE Tick \/ UNCHANGED vars
  BY <1>4 DEF Tick, vars, Quiet, RowsStay
<1> QED
  BY <1>1, <1>2, <1>3, <1>4

-----------------------------------------------------------------------------
(* What a slug shows is in its history: the steps that write it *)

LEMMA UpsertWrites ==
    ASSUME TypeOK, OriginalInv, WritesInv, HandlersInv, NEW u \in Users, UpsertOverride(u)
    PROVE  WritesInv'
<1>1. PICK s \in Slugs :
        /\ s = req[u].slug /\ Busy(u) /\ req[u].doc \in Doc /\ req[u] \in Request
        /\ req[u].at = "upsert"
  BY StatementRequest, BusyIsRequest DEF Statement, UpsertOverride
<1>2. CASE Refuses(u)
  <2>1. End(u) /\ UNCHANGED <<over, terms, revs, settled>>
    BY <1>2 DEF UpsertOverride, Refuses
  <2>2. Quiet
    BY <2>1 DEF End, Idle, Quiet, RowsStay, TypeOK, Written
  <2> QED
    BY <2>2, QuietKeeps
<1>3. CASE ~Refuses(u)
  <2>1. /\ over' = [over EXCEPT ![s] = [edit |-> req[u].doc.edit, status |-> req[u].doc.status,
                                        sched |-> req[u].doc.sched, stamp |-> now]]
        /\ req' = [v \in Users |-> AfterUpsert(u, v)]
        /\ settled' = settled \ {s}
        /\ terms' = terms /\ revs' = revs
    BY <1>1, <1>3 DEF UpsertOverride, Refuses, AfterUpsert
  <2>2. /\ over'[s] # NoRow /\ over'[s].edit = req[u].doc.edit
        /\ \A x \in Slugs \ {s} : over'[x] = over[x]
    BY <1>1, <2>1 DEF TypeOK, NoRow
  <2>3. \A v \in Users \ {u} : /\ req'[v].at = req[v].at
                               /\ req[v].at \in Written => /\ req'[v].slug = req[v].slug
                                                           /\ req'[v].doc = req[v].doc
    <3> SUFFICES ASSUME NEW v \in Users \ {u}
                 PROVE  /\ req'[v].at = req[v].at
                        /\ req[v].at \in Written => /\ req'[v].slug = req[v].slug
                                                    /\ req'[v].doc = req[v].doc
      OBVIOUS
    <3>1. CASE Busy(v)
      BY <2>1, <3>1, BusyIsRequest DEF AfterUpsert, Request
    <3>2. CASE ~Busy(v)
      BY <2>1, <3>2 DEF AfterUpsert
    <3> QED
      BY <3>1, <3>2
  <2>4. /\ req'[u].slug = s /\ req'[u].doc = req[u].doc
        /\ req'[u].at = IF req[u].op = "create" THEN "revision" ELSE "clear"
        /\ req'[u].alone = (Writing(s) = {})
    <3> DEFINE b == Writing(s) = {}
               at == IF req[u].op = "create" THEN "revision" ELSE "clear"
    <3>1. req'[u] = [req[u] EXCEPT !.at = at, !.alone = b]
      BY <1>1, <2>1 DEF AfterUpsert
    <3> HIDE DEF b, at
    <3>2. /\ req'[u].slug = s /\ req'[u].doc = req[u].doc /\ req'[u].at = at
          /\ req'[u].alone = b
      BY <1>1, <3>1 DEF Request
    <3> QED
      BY <3>2 DEF b, at
  <2>5. u \notin Writing(s) /\ (\A x \in Slugs \ {s} : Writing(x)' = Writing(x))
        /\ Writing(s)' = Writing(s) \cup {u}
    <3>1. u \notin Writing(s) /\ \A x \in Slugs : u \notin Writing(x)
      BY <1>1 DEF Writing
    <3>2. \A v \in Users \ {u}, x \in Slugs : v \in Writing(x)' <=> v \in Writing(x)
      BY <2>3 DEF Writing, Written
    <3>3. \A x \in Slugs : u \in Writing(x)' <=> x = s
      BY <2>4 DEF Writing
    <3>4. \A x \in Slugs : Writing(x) \subseteq Users /\ Writing(x)' \subseteq Users
      BY DEF Writing
    <3>5. Writing(s)' = Writing(s) \cup {u}
      BY <3>2, <3>3, <3>4
    <3>6. \A x \in Slugs \ {s} : Writing(x)' = Writing(x)
      BY <3>1, <3>2, <3>3, <3>4
    <3> QED
      BY <3>1, <3>5, <3>6
  <2>6. RowsFirst'
    BY <2>1, <2>2, <2>5 DEF WritesInv, RowsFirst
  <2>7. SettledRows'
    <3> SUFFICES ASSUME NEW x \in settled \ {s}
                 PROVE  /\ over'[x] # NoRow /\ Writing(x)' = {}
                        /\ \E r \in revs'[x] : r.edit = over'[x].edit /\ r.terms = terms'[x]
      BY <2>1 DEF SettledRows
    <3>1. x \in Slugs \ {s}
      BY DEF TypeOK
    <3> QED
      BY <2>1, <2>2, <2>5, <3>1 DEF WritesInv, SettledRows
  <2>8. AloneWrites(u)'
    <3> SUFFICES ASSUME Writing(s) = {}
                 PROVE  /\ Writing(s)' = {u} /\ over'[s].edit = req[u].doc.edit
                        /\ req'[u].at = "revision" => terms'[s] = req[u].doc.terms
      BY <2>4 DEF AloneWrites
    <3>1. ASSUME req[u].op = "create" PROVE terms[s] = req[u].doc.terms
      <4>1. over[s] = NoRow
        <5>1. backend = "sqlite" \/ backend # "sqlite"
          OBVIOUS
        <5>2. backend = "d1" => over[s] = NoRow
          BY <1>1, <1>3, <3>1 DEF Refuses
        <5>3. backend \in {"sqlite", "d1"}
          BY ConstantsAssumption DEF TypeOK
        <5> QED
          BY <1>1, <3>1, <5>2, <5>3 DEF HandlersInv, CreatesAlone
      <4> QED
        BY <1>1, <3>1, <4>1 DEF HandlersInv, CreatesAlone, WritesInv, RowsFirst
    <3> QED
      BY <2>1, <2>2, <2>4, <2>5, <3>1
  <2>9. ASSUME NEW v \in Users \ {u} PROVE AloneWrites(v)'
    <3> SUFFICES ASSUME req[v].at \in Written, req'[v].alone
                 PROVE  AloneWrites(v)'
      BY <2>3 DEF AloneWrites
    <3>1. Busy(v) /\ req[v].slug \in Slugs /\ req[v] \in Request
      BY WriterTyped, BusyIsRequest
    <3>2. req[v].slug # s
      BY <1>1, <2>1, <3>1 DEF AfterUpsert, Request
    <3>3. req'[v] = req[v]
      BY <1>1, <2>1, <3>2 DEF AfterUpsert
    <3>4. AloneWrites(v)
      BY DEF WritesInv
    <3> QED
      BY <2>1, <2>2, <2>5, <3>1, <3>2, <3>3, <3>4 DEF AloneWrites
  <2> QED
    BY <2>6, <2>7, <2>8, <2>9 DEF WritesInv
<1> QED
  BY <1>2, <1>3

\* A writer goes on to the next part; who is writing stays the same.
LEMMA TermsWrite ==
    ASSUME TypeOK, WritesInv, NEW u \in Users, ClearTerms(u) \/ InsertTerms(u)
    PROVE  WritesInv'
<1>1. PICK s \in Slugs :
        /\ s = req[u].slug /\ Busy(u) /\ req[u] \in Request
        /\ req[u].at \in {"clear", "terms"} /\ u \in Writing(s)
  <2>1. req[u].at \in {"clear", "terms"} /\ req[u].at \in Written
    BY DEF ClearTerms, InsertTerms, Written
  <2> QED
    BY <2>1, WriterTyped, BusyIsRequest
<1>2. /\ UNCHANGED <<over, revs, settled>>
      /\ \A x \in Slugs \ {s} : terms'[x] = terms[x]
  BY <1>1 DEF ClearTerms, InsertTerms, TypeOK
<1>3. /\ \A v \in Users \ {u} : req'[v] = req[v]
      /\ req'[u].at \in {"terms", "revision"}
      /\ req'[u].slug = s /\ req'[u].doc = req[u].doc /\ req'[u].alone = req[u].alone
  <2>1. PICK at \in {"terms", "revision"} : Goto(u, at)
    BY DEF ClearTerms, InsertTerms
  <2> QED
    BY <1>1, <2>1 DEF Goto, TypeOK, Request
<1>4. \A x \in Slugs : Writing(x)' = Writing(x)
  BY <1>1, <1>3 DEF Writing
<1>5. over[s] # NoRow /\ s \notin settled
  BY <1>1 DEF WritesInv, RowsFirst, SettledRows
<1>6. RowsFirst'
  BY <1>2, <1>4, <1>5 DEF WritesInv, RowsFirst
<1>7. SettledRows'
  <2>1. settled \subseteq Slugs \ {s}
    BY <1>5 DEF TypeOK
  <2> QED
    BY <1>2, <1>4, <2>1 DEF WritesInv, SettledRows
<1>8. AloneWrites(u)'
  <2> SUFFICES ASSUME req[u].alone PROVE AloneWrites(u)'
    BY <1>3 DEF AloneWrites
  <2>1. /\ Writing(s) = {u} /\ over[s].edit = req[u].doc.edit
        /\ req[u].at = "terms" => terms[s] = {}
    BY <1>1 DEF WritesInv, AloneWrites, Written
  <2>2. /\ req'[u].at = "terms" => terms'[s] = {}
        /\ req'[u].at = "revision" => terms'[s] = req[u].doc.terms
    <3>1. CASE ClearTerms(u)
      BY <1>1, <3>1, GoesOn DEF ClearTerms, TypeOK
    <3>2. CASE InsertTerms(u)
      <4>1. req[u].at = "terms" /\ req'[u].at = "revision"
        BY <1>1, <3>2, GoesOn DEF InsertTerms
      <4>2. terms[s] = {} /\ terms'[s] = terms[s] \cup req[u].doc.terms
        BY <1>1, <2>1, <3>2, <4>1 DEF InsertTerms, TypeOK
      <4> QED
        BY <4>1, <4>2
    <3> QED
      BY <3>1, <3>2
  <2> QED
    BY <1>1, <1>2, <1>3, <1>4, <2>1, <2>2 DEF AloneWrites
<1>9. ASSUME NEW v \in Users \ {u} PROVE AloneWrites(v)'
  <2> SUFFICES ASSUME req[v].at \in Written, req[v].alone PROVE AloneWrites(v)'
    BY <1>3 DEF AloneWrites
  <2>1. AloneWrites(v) /\ req[v].slug \in Slugs
    BY WriterTyped DEF WritesInv
  <2>2. req[v].slug # s
    BY <1>1, <2>1 DEF AloneWrites
  <2> QED
    BY <1>2, <1>3, <1>4, <2>1, <2>2 DEF AloneWrites
<1> QED
  BY <1>6, <1>7, <1>8, <1>9 DEF WritesInv

LEMMA RevisionWrites ==
    ASSUME TypeOK, WritesInv, NEW u \in Users, InsertRevision(u)
    PROVE  WritesInv'
<1>1. PICK s \in Slugs :
        /\ s = req[u].slug /\ Busy(u) /\ req[u].doc \in Doc /\ req[u].at = "revision"
        /\ u \in Writing(s)
  <2>1. req[u].at = "revision" /\ req[u].at \in Written
    BY DEF InsertRevision, Written
  <2> QED
    BY <2>1, WriterTyped
<1>2. /\ over' = over /\ terms' = terms
      /\ req'[u].at = "idle" /\ \A v \in Users \ {u} : req'[v] = req[v]
      /\ req[u].doc \in revs'[s] /\ \A x \in Slugs : revs[x] \subseteq revs'[x]
  BY <1>1 DEF InsertRevision, End, Idle, TypeOK
<1>3. \A x \in Slugs : Writing(x)' = Writing(x) \ {u}
  BY <1>2 DEF Writing
<1>4. RowsFirst'
  BY <1>2, <1>3 DEF WritesInv, RowsFirst
<1>5. SettledRows'
  <2> SUFFICES ASSUME NEW x \in settled'
               PROVE  /\ over[x] # NoRow /\ Writing(x)' = {}
                      /\ \E r \in revs'[x] : r.edit = over[x].edit /\ r.terms = terms[x]
    BY <1>2 DEF SettledRows
  <2>1. CASE x \in settled
    <3>1. x \in Slugs
      BY <2>1 DEF TypeOK
    <3> QED
      BY <1>2, <1>3, <2>1, <3>1 DEF WritesInv, SettledRows
  <2>2. CASE x \notin settled
    <3>1. x = s /\ req[u].alone
      BY <1>1, <2>2 DEF InsertRevision
    <3>2. /\ Writing(s) = {u} /\ over[s].edit = req[u].doc.edit
          /\ terms[s] = req[u].doc.terms
      BY <1>1, <3>1 DEF WritesInv, AloneWrites, Written
    <3>3. over[s] # NoRow
      BY <1>1 DEF WritesInv, RowsFirst
    <3> QED
      BY <1>1, <1>2, <1>3, <3>1, <3>2, <3>3
  <2> QED
    BY <2>1, <2>2
<1>6. ASSUME NEW v \in Users PROVE AloneWrites(v)'
  <2> SUFFICES ASSUME req'[v].at \in Written, req'[v].alone PROVE AloneWrites(v)'
    BY DEF AloneWrites
  <2>1. v # u
    BY <1>2 DEF Written
  <2>2. req'[v] = req[v] /\ AloneWrites(v)
    BY <1>2, <2>1 DEF WritesInv
  <2>3. req[v].slug \in Slugs
    BY <2>2, WriterTyped
  <2> QED
    BY <1>2, <1>3, <2>1, <2>2, <2>3 DEF AloneWrites
<1> QED
  BY <1>4, <1>5, <1>6 DEF WritesInv

LEMMA WritesStep ==
    ASSUME TypeOK, OriginalInv, WritesInv, HandlersInv, [Next]_vars
    PROVE  WritesInv'
<1>1. ASSUME NEW u \in Users, Statement(u) \/ Killed(u) PROVE WritesInv'
  BY <1>1, StatementsQuiet, QuietKeeps, UpsertWrites, TermsWrite, RevisionWrites DEF Statement
<1> QED
  BY <1>1, BeginsQuiet, SchedulingQuiet, QuietKeeps DEF Next

-----------------------------------------------------------------------------
(* What a slug shows is in its history: one handler at a time *)

\* A request starts, and on SQLite no other is on its way.
LEMMA HandlerStarts ==
    ASSUME HandlersInv, MayRun, NEW u \in Users, backend' = backend,
           \A v \in Users \ {u} : req'[v] = req[v],
           CreatesAlone(u)'
    PROVE  HandlersInv'
<1>1. backend = "sqlite" => \A v \in Users \ {u} : ~Busy(v)'
  BY DEF MayRun, Busy
<1>2. OneHandler'
  BY <1>1 DEF OneHandler
<1>3. ASSUME NEW v \in Users \ {u} PROVE CreatesAlone(v)'
  BY <1>1 DEF HandlersInv, CreatesAlone, Busy
<1> QED
  BY <1>2, <1>3 DEF HandlersInv

\* A request goes on or ends, and the others stay where they are.
LEMMA HandlerGoesOn ==
    ASSUME HandlersInv, NEW u \in Users, Busy(u), backend' = backend,
           \A v \in Users : Busy(v)' => Busy(v),
           \A v \in Users \ {u} : Busy(v) => req'[v].op = req[v].op /\ req'[v].doc = req[v].doc,
           CreatesAlone(u)'
    PROVE  HandlersInv'
<1>1. OneHandler'
  BY DEF HandlersInv, OneHandler
<1>2. ASSUME NEW v \in Users \ {u} PROVE CreatesAlone(v)'
  <2> SUFFICES ASSUME Busy(v)', req'[v].op = "create"
               PROVE  req'[v].doc.terms = {} /\ backend # "sqlite"
    BY DEF CreatesAlone
  <2>1. Busy(v) /\ req[v].op = "create" /\ req'[v].doc = req[v].doc
    OBVIOUS
  <2> QED
    BY <2>1 DEF HandlersInv, OneHandler, CreatesAlone
<1> QED
  BY <1>1, <1>2 DEF HandlersInv

\* Only the first statement of a create leads it to its upsert.
LEMMA StatementCreates ==
    ASSUME TypeOK, OriginalInv, HandlersInv, NEW u \in Users, Statement(u)
    PROVE  CreatesAlone(u)'
<1>1. PICK s \in Slugs : s = req[u].slug /\ Busy(u) /\ req[u] \in Request
  BY StatementRequest, BusyIsRequest
<1>2. RequestReady(u) /\ CreatesAlone(u)
  BY DEF OriginalInv, HandlersInv
<1>3. CASE End(u)
  BY <1>3 DEF End, Idle, CreatesAlone, Busy, WriteSteps, TypeOK
<1>4. ASSUME NEW at, Goto(u, at), req[u].op = "create" => at # "upsert"
      PROVE  CreatesAlone(u)'
  BY <1>1, <1>2, <1>4, GoesOn DEF CreatesAlone
<1>5. CASE InsertEntry(u)
  <2>1. CASE Known(s)
    BY <1>1, <1>3, <1>5, <2>1 DEF InsertEntry
  <2>2. CASE ~Known(s)
    <3>1. Goto(u, "upsert") /\ over' = over
      BY <1>1, <1>5, <2>2 DEF InsertEntry
    <3>2. over[s] = NoRow
      BY <2>2 DEF OriginalInv, StoredKnown
    <3> QED
      BY <1>1, <1>2, <3>1, <3>2, GoesOn DEF CreatesAlone
  <2> QED
    BY <2>1, <2>2
<1>6. CASE BaselineOverride(u)
  BY <1>4, <1>6 DEF BaselineOverride
<1>7. CASE BaselineRevision(u)
  <2>1. req[u].op # "create"
    BY <1>1, <1>2, <1>7 DEF BaselineRevision, RequestReady
  <2> QED
    BY <1>3, <1>4, <1>7, <2>1 DEF BaselineRevision, AfterBaseline
<1>8. CASE Check(u)
  <2>1. req[u].op # "create"
    BY <1>1, <1>2, <1>8 DEF Check, RequestReady
  <2>2. CASE Stale(u)
    BY <1>8, <2>2 DEF Check, TypeOK, CreatesAlone, Busy, WriteSteps
  <2>3. CASE ~Stale(u)
    BY <1>4, <1>8, <2>1, <2>3 DEF Check
  <2> QED
    BY <2>2, <2>3
<1>9. CASE UpsertOverride(u)
  <2>1. CASE Refuses(u)
    BY <1>3, <1>9, <2>1 DEF UpsertOverride, Refuses
  <2>2. CASE ~Refuses(u)
    <3>1. req' = [v \in Users |-> AfterUpsert(u, v)]
      BY <1>9, <2>2 DEF UpsertOverride, Refuses, AfterUpsert
    <3>2. /\ req'[u].at # "upsert" /\ req'[u].op = req[u].op /\ req'[u].doc = req[u].doc
      BY <1>1, <3>1 DEF AfterUpsert, Request
    <3> QED
      BY <1>1, <1>2, <3>2 DEF CreatesAlone
  <2> QED
    BY <2>1, <2>2
<1>10. CASE ClearTerms(u) \/ InsertTerms(u)
  BY <1>4, <1>10 DEF ClearTerms, InsertTerms
<1>11. CASE InsertRevision(u) \/ ScheduleStub(u)
  BY <1>3, <1>11 DEF InsertRevision, ScheduleStub
<1> QED
  BY <1>5, <1>6, <1>7, <1>8, <1>9, <1>10, <1>11 DEF Statement

LEMMA StatementHandles ==
    ASSUME TypeOK, OriginalInv, HandlersInv, NEW u \in Users, Statement(u) \/ Killed(u)
    PROVE  HandlersInv'
<1>1. Busy(u)
  BY StatementRequest DEF Killed
<1>2. backend' = backend
  BY DEF Statement, InsertEntry, BaselineOverride, BaselineRevision, Check, UpsertOverride,
         ClearTerms, InsertTerms, InsertRevision, ScheduleStub, Killed
<1>3. ASSUME NEW v \in Users \ {u}
      PROVE  /\ Busy(v)' => Busy(v)
             /\ Busy(v) => req'[v].op = req[v].op /\ req'[v].doc = req[v].doc
  <2>1. CASE UpsertOverride(u) /\ ~Refuses(u)
    <3>1. req'[v] = AfterUpsert(u, v)
      BY <2>1 DEF UpsertOverride, Refuses, AfterUpsert
    <3>2. CASE Busy(v)
      BY <3>1, <3>2, BusyIsRequest DEF AfterUpsert, Request
    <3>3. CASE ~Busy(v)
      BY <3>1, <3>3 DEF AfterUpsert, Busy
    <3> QED
      BY <3>2, <3>3
  <2>2. CASE ~(UpsertOverride(u) /\ ~Refuses(u))
    <3>1. req'[v] = req[v]
      BY <2>2 DEF Statement, InsertEntry, BaselineOverride, BaselineRevision, AfterBaseline, Check,
             UpsertOverride, Refuses, ClearTerms, InsertTerms, InsertRevision, ScheduleStub,
             Killed, Goto, End, TypeOK
    <3> QED
      BY <3>1 DEF Busy
  <2> QED
    BY <2>1, <2>2
<1>4. CreatesAlone(u)'
  <2>1. CASE Killed(u)
    BY <2>1 DEF Killed, End, Idle, CreatesAlone, Busy, WriteSteps, TypeOK
  <2> QED
    BY <2>1, StatementCreates
<1> QED
  BY <1>1, <1>2, <1>3, <1>4, HandlerGoesOn

LEMMA BeginsHandle ==
    ASSUME TypeOK, HandlersInv, NEW u \in Users,
           \/ \E s \in Slugs : OpenEditor(u, s) \/ Delete(u, s) \/ BeginView(u, s)
           \/ \E form \in Forms : BeginSave(u, form)
           \/ \E s \in Slugs, form \in Forms :
                BeginPut(u, s, form.status) \/ BeginCreate(u, s, form.status)
           \/ \E s \in Slugs : \E doc \in revs[s] : BeginRestore(u, s, doc)
           \/ \E s \in Slugs, t \in 1..MaxNow : Schedule(u, s, t)
    PROVE  HandlersInv'
<1>1. ASSUME NEW s \in Slugs, OpenEditor(u, s)
      PROVE  HandlersInv'
  BY <1>1 DEF OpenEditor, HandlersInv, OneHandler, CreatesAlone, Busy
<1>2. ASSUME NEW s \in Slugs, Delete(u, s)
      PROVE  HandlersInv'
  <2>1. CreatesAlone(u)'
    BY <1>2 DEF Delete, CreatesAlone, Busy, WriteSteps, TypeOK
  <2> QED
    BY <1>2, <2>1, HandlerStarts DEF Delete, TypeOK
<1>3. ASSUME NEW op, NEW at, NEW s, NEW doc, NEW from, Begin(u, op, at, s, doc, from),
             at # "upsert", op = "create" => doc.terms = {}
      PROVE  HandlersInv'
  <2>1. CreatesAlone(u)'
    BY <1>3 DEF Begin, CreatesAlone, TypeOK
  <2> QED
    BY <1>3, <2>1, HandlerStarts DEF Begin, TypeOK
<1>4. ASSUME NEW s \in Slugs, NEW t \in 1..MaxNow, Schedule(u, s, t)
      PROVE  HandlersInv'
  <2>1. CreatesAlone(u)'
    BY <1>4 DEF Schedule, CreatesAlone, TypeOK
  <2> QED
    BY <1>4, <2>1, HandlerStarts DEF Schedule, TypeOK
<1>5. FirstStep # "upsert"
  BY DEF FirstStep
<1> QED
  BY <1>1, <1>2, <1>3, <1>4, <1>5
     DEF BeginView, BeginSave, BeginPut, BeginCreate, BeginRestore

LEMMA HandlersStep ==
    ASSUME TypeOK, OriginalInv, HandlersInv, [Next]_vars
    PROVE  HandlersInv'
<1>1. CASE (\E s \in Slugs : CancelScheduled(s)) \/ RunScheduled
  BY <1>1 DEF CancelScheduled, RunScheduled, MayRun, HandlersInv, OneHandler, CreatesAlone, Busy
<1>2. CASE Tick \/ UNCHANGED vars
  BY <1>2 DEF Tick, vars, HandlersInv, OneHandler, CreatesAlone, Busy
<1> QED
  BY <1>1, <1>2, BeginsHandle, StatementHandles DEF Next

\* From every reachable state on, a slug shows a text of its history once the handler
\* that wrote it has ended, unless another one came in between.
LEMMA HistoryInit == Init => WritesInv /\ HandlersInv
BY DEF Init, WritesInv, RowsFirst, SettledRows, AloneWrites, HandlersInv, OneHandler, CreatesAlone,
       Writing, Written, Busy, Idle, WriteSteps

LEMMA HistoryInvariant == Spec => [](WritesInv /\ HandlersInv)
<1>1. Init => WritesInv /\ HandlersInv
  BY HistoryInit
<1>2. (TypeOK /\ OriginalInv) /\ (WritesInv /\ HandlersInv) /\ [Next]_vars
        => (WritesInv /\ HandlersInv)'
  BY WritesStep, HandlersStep
<1> QED
  BY <1>1, <1>2, ContentInvariant, PTL DEF Spec

\* After a save, a restore or a create that nobody disturbed, the history holds what the
\* slug shows, with its terms: for any number of editors, slugs and edits, on both
\* backends, and whatever is killed, scheduled or published afterwards.
THEOREM SnapshotShown == Spec => []ShownIsASnapshot
<1>1. WritesInv => ShownIsASnapshot
  BY DEF WritesInv, SettledRows, ShownIsASnapshot
<1> QED
  BY <1>1, HistoryInvariant, PTL

-----------------------------------------------------------------------------
(* When a save on D1 replaces what its author never saw: the invariant *)

PageDated(u) == page[u] # NoPage => page[u].stamp = record[page[u].slug].stamp

SaveDated(u) ==
    Busy(u) /\ req[u].op = "save" =>
        req[u].page # NoPage /\ req[u].page.stamp = record[req[u].slug].stamp

\* The baseline is written before the check.
RowReady(u) ==
    backend = "d1" /\ req[u].at \in {"imported", "check"} => over[req[u].slug] # NoRow

\* A save that has passed its check finds the row with the record's date, unless another
\* write came in between.
Fresh(u) ==
    backend = "d1" /\ req[u].at = "upsert" /\ req[u].op = "save" /\ ~req[u].raced =>
        /\ over[req[u].slug] # NoRow
        /\ over[req[u].slug].stamp = record[req[u].slug].stamp

Dated(u) == PageDated(u) /\ SaveDated(u) /\ RowReady(u) /\ Fresh(u)

DatesInv == \A u \in Users : Dated(u)

-----------------------------------------------------------------------------
(* When a save on D1 replaces what its author never saw: steps that date no row *)

\* Rows stay, with their dates.
StampsStay ==
    \A s \in Slugs : over[s] # NoRow => over'[s] # NoRow /\ over'[s].stamp = over[s].stamp

RecordsStay == \A s \in Slugs : Known(s) => record'[s] = record[s]

LEMMA PageDatedKept ==
    ASSUME TypeOK, OriginalInv, NEW v \in Users, PageDated(v), RecordsStay,
           page'[v] = page[v] \/ page'[v] = NoPage
    PROVE  PageDated(v)'
<1> SUFFICES ASSUME page'[v] # NoPage PROVE page'[v].stamp = record'[page'[v].slug].stamp
  BY DEF PageDated
<1>1. page'[v] = page[v] /\ page[v] # NoPage
  OBVIOUS
<1>2. page[v].slug \in Slugs /\ Known(page[v].slug)
  BY <1>1 DEF OriginalInv, PagesKnown, TypeOK, Page
<1> QED
  BY <1>1, <1>2 DEF PageDated, RecordsStay

\* A request, and a row, that a step leaves alone.
LEMMA DatedKept ==
    ASSUME TypeOK, OriginalInv, NEW v \in Users, Dated(v), backend' = backend, RecordsStay,
           StampsStay, page'[v] = page[v] \/ page'[v] = NoPage,
           req'[v] = req[v] \/ ~Busy(v)'
    PROVE  Dated(v)'
<1>1. PageDated(v)'
  BY PageDatedKept DEF Dated
<1>2. CASE ~Busy(v)'
  BY <1>1, <1>2 DEF Dated, SaveDated, RowReady, Fresh, Busy, WriteSteps
<1>3. CASE req'[v] = req[v] /\ Busy(v)
  <2>1. req[v].slug \in Slugs
    BY <1>3, BusyIsRequest DEF Request
  <2>2. RequestReady(v) /\ (req[v].at # "entry" => Known(req[v].slug))
    BY <1>3 DEF OriginalInv, RequestReady
  <2>3. SaveDated(v)'
    <3>1. req[v].op = "save" => Known(req[v].slug)
      BY <1>3, <2>2 DEF RequestReady
    <3> QED
      BY <1>3, <2>1, <3>1 DEF Dated, SaveDated, RecordsStay, Busy
  <2>4. RowReady(v)'
    BY <1>3, <2>1 DEF Dated, RowReady, StampsStay
  <2>5. Fresh(v)'
    BY <1>3, <2>1, <2>2 DEF Dated, Fresh, StampsStay, RecordsStay
  <2> QED
    BY <1>1, <2>3, <2>4, <2>5 DEF Dated
<1> QED
  BY <1>2, <1>3 DEF Busy

\* A request goes on to its next statement.
LEMMA DatedGoesOn ==
    ASSUME TypeOK, OriginalInv, NEW u \in Users, Busy(u), Dated(u), backend' = backend,
           RecordsStay, page' = page, NEW at, Goto(u, at),
           backend = "d1" /\ at \in {"imported", "check"} => over'[req[u].slug] # NoRow,
           backend = "d1" /\ at = "upsert" => req[u].op # "save" \/
             /\ over'[req[u].slug] # NoRow
             /\ over'[req[u].slug].stamp = record[req[u].slug].stamp
    PROVE  Dated(u)'
<1>1. /\ req[u].slug \in Slugs
      /\ req[u].op = "save" => Known(req[u].slug)
  BY BusyIsRequest DEF Request, OriginalInv, RequestReady
<1>2. /\ req'[u].at = at /\ req'[u].op = req[u].op /\ req'[u].slug = req[u].slug
      /\ req'[u].page = req[u].page
  BY BusyIsRequest DEF Goto, TypeOK, Request
<1>3. PageDated(u)'
  BY PageDatedKept DEF Dated
<1>4. SaveDated(u)'
  BY <1>1, <1>2 DEF Dated, SaveDated, RecordsStay
<1>5. RowReady(u)'
  BY <1>2 DEF RowReady
<1>6. Fresh(u)'
  BY <1>1, <1>2 DEF Fresh, RecordsStay
<1> QED
  BY <1>3, <1>4, <1>5, <1>6 DEF Dated

-----------------------------------------------------------------------------
(* When a save on D1 replaces what its author never saw: the steps *)

LEMMA BeginDated ==
    ASSUME TypeOK, OriginalInv, DatesInv, NEW u \in Users, NEW op, NEW at, NEW s \in Slugs,
           NEW doc, NEW from, Begin(u, op, at, s, doc, from),
           backend = "d1" => at \notin {"imported", "check", "upsert"},
           op = "save" => from # NoPage /\ from.stamp = record[s].stamp
    PROVE  DatesInv'
<1>1. /\ UNCHANGED <<backend, record, over, page>>
      /\ \A v \in Users \ {u} : req'[v] = req[v]
      /\ req'[u].op = op /\ req'[u].at = at /\ req'[u].slug = s /\ req'[u].page = from
  BY DEF Begin, TypeOK
<1>2. ASSUME NEW v \in Users \ {u} PROVE Dated(v)'
  BY <1>1, DatedKept DEF DatesInv, RecordsStay, StampsStay
<1>3. Dated(u)'
  <2>1. PageDated(u)'
    BY <1>1 DEF DatesInv, Dated, PageDated
  <2>2. SaveDated(u)' /\ RowReady(u)' /\ Fresh(u)'
    BY <1>1 DEF SaveDated, RowReady, Fresh
  <2> QED
    BY <2>1, <2>2 DEF Dated
<1> QED
  BY <1>2, <1>3 DEF DatesInv

LEMMA BeginsDated ==
    ASSUME TypeOK, OriginalInv, DatesInv, NEW u \in Users,
           \/ \E s \in Slugs : OpenEditor(u, s) \/ Delete(u, s) \/ BeginView(u, s)
           \/ \E form \in Forms : BeginSave(u, form)
           \/ \E s \in Slugs, form \in Forms :
                BeginPut(u, s, form.status) \/ BeginCreate(u, s, form.status)
           \/ \E s \in Slugs : \E doc \in revs[s] : BeginRestore(u, s, doc)
    PROVE  DatesInv'
<1>1. ASSUME NEW s \in Slugs, OpenEditor(u, s) PROVE DatesInv'
  <2>1. UNCHANGED <<backend, record, over, req>> /\ \A v \in Users \ {u} : page'[v] = page[v]
    BY <1>1 DEF OpenEditor, TypeOK
  <2>2. ASSUME NEW v \in Users \ {u} PROVE Dated(v)'
    BY <2>1, DatedKept DEF DatesInv, RecordsStay, StampsStay
  <2>3. PageDated(u)'
    BY <1>1 DEF OpenEditor, PageDated, TypeOK
  <2>4. Dated(u)'
    BY <2>1, <2>3 DEF DatesInv, Dated, SaveDated, RowReady, Fresh, Busy
  <2> QED
    BY <2>2, <2>4 DEF DatesInv
<1>2. ASSUME NEW s \in Slugs, Delete(u, s) PROVE DatesInv'
  <2>1. /\ UNCHANGED <<backend, record, over, page>> /\ ~Busy(u)'
        /\ \A v \in Users \ {u} : req'[v] = req[v]
    BY <1>2 DEF Delete, TypeOK, Busy, WriteSteps
  <2> QED
    BY <2>1, DatedKept DEF DatesInv, RecordsStay, StampsStay
<1>3. /\ FirstStep \in {"check", "baseline"}
      /\ backend = "d1" => FirstStep = "baseline"
  BY DEF FirstStep
<1>4. ASSUME NEW form \in Forms, BeginSave(u, form) PROVE DatesInv'
  <2>1. /\ page[u] # NoPage /\ page[u].slug \in Slugs
        /\ page[u].stamp = record[page[u].slug].stamp
    BY <1>4 DEF BeginSave, TypeOK, Page, DatesInv, Dated, PageDated
  <2> QED
    BY <1>3, <1>4, <2>1, BeginDated DEF BeginSave
<1> QED
  BY <1>1, <1>2, <1>3, <1>4, BeginDated DEF BeginView, BeginPut, BeginCreate, BeginRestore

\* A step that dates no row and changes at most one request, which goes on or ends.
LEMMA OthersDated ==
    ASSUME TypeOK, OriginalInv, DatesInv, NEW u \in Users, backend' = backend, RecordsStay,
           StampsStay, \A v \in Users \ {u} : req'[v] = req[v] /\ page'[v] = page[v],
           Dated(u)'
    PROVE  DatesInv'
BY DatedKept DEF DatesInv

LEMMA UpsertDated ==
    ASSUME TypeOK, OriginalInv, DatesInv, NEW u \in Users, UpsertOverride(u), ~Refuses(u)
    PROVE  DatesInv'
<1>1. PICK s \in Slugs : s = req[u].slug /\ Busy(u) /\ req[u] \in Request
  BY StatementRequest, BusyIsRequest DEF Statement
<1>2. /\ UNCHANGED <<backend, record, page>>
      /\ req' = [v \in Users |-> AfterUpsert(u, v)]
      /\ over'[s] # NoRow /\ \A x \in Slugs \ {s} : over'[x] = over[x]
  <2> DEFINE row == [edit |-> req[u].doc.edit, status |-> req[u].doc.status,
                     sched |-> req[u].doc.sched, stamp |-> now]
  <2>1. over' = [over EXCEPT ![s] = row] /\ UNCHANGED <<backend, record, page>>
    BY <1>1 DEF UpsertOverride, Refuses
  <2>2. req' = [v \in Users |-> AfterUpsert(u, v)]
    BY <1>1 DEF UpsertOverride, Refuses, AfterUpsert
  <2>3. row # NoRow
    BY DEF NoRow
  <2> HIDE DEF row
  <2> QED
    BY <2>1, <2>2, <2>3 DEF TypeOK
<1>3. ASSUME NEW v \in Users PROVE PageDated(v)'
  BY <1>2 DEF DatesInv, Dated, PageDated
<1>4. Dated(u)'
  <2>1. /\ req'[u].at \in {"revision", "clear"} /\ req'[u].op = req[u].op
        /\ req'[u].slug = s /\ req'[u].page = req[u].page
    BY <1>1, <1>2 DEF AfterUpsert, Request
  <2>2. SaveDated(u)' /\ RowReady(u)' /\ Fresh(u)'
    BY <1>1, <1>2, <2>1 DEF DatesInv, Dated, SaveDated, RowReady, Fresh
  <2> QED
    BY <1>3, <2>2 DEF Dated
<1>5. ASSUME NEW v \in Users \ {u} PROVE Dated(v)'
  <2>1. CASE Busy(v) /\ req[v].slug = s
    <3>1. /\ req'[v].at = req[v].at /\ req'[v].op = req[v].op /\ req'[v].slug = s
          /\ req'[v].page = req[v].page /\ req'[v].raced = (req[v].at = "upsert")
      <4> DEFINE b == req[v].at = "upsert"
      <4>1. req'[v] = [req[v] EXCEPT !.alone = FALSE, !.raced = b]
        BY <1>1, <1>2, <2>1 DEF AfterUpsert
      <4> HIDE DEF b
      <4>2. /\ req'[v].at = req[v].at /\ req'[v].op = req[v].op /\ req'[v].slug = s
            /\ req'[v].page = req[v].page /\ req'[v].raced = b
        BY <2>1, <4>1, BusyIsRequest DEF Request
      <4> QED
        BY <4>2 DEF b
    <3>2. SaveDated(v)' /\ RowReady(v)' /\ Fresh(v)'
      <4>1. Dated(v) /\ Busy(v) /\ req[v].slug = s
        BY <2>1 DEF DatesInv
      <4>2. SaveDated(v)'
        BY <1>2, <3>1, <4>1 DEF Dated, SaveDated
      <4>3. RowReady(v)'
        BY <1>2, <3>1 DEF RowReady
      <4>4. Fresh(v)'
        <5>1. CASE req[v].at = "upsert"
          BY <3>1, <5>1 DEF Fresh
        <5>2. CASE req[v].at # "upsert"
          BY <3>1, <5>2 DEF Fresh
        <5> QED
          BY <5>1, <5>2
      <4> QED
        BY <4>2, <4>3, <4>4
    <3> QED
      BY <1>3, <3>2 DEF Dated
  <2>2. CASE ~(Busy(v) /\ req[v].slug = s)
    <3>1. req'[v] = req[v]
      BY <1>1, <1>2, <2>2 DEF AfterUpsert
    <3>2. CASE Busy(v)
      <4>1. req[v].slug \in Slugs \ {s}
        BY <2>2, <3>2, BusyIsRequest DEF Request
      <4>2. SaveDated(v)' /\ RowReady(v)' /\ Fresh(v)'
        BY <1>2, <3>1, <3>2, <4>1 DEF DatesInv, Dated, SaveDated, RowReady, Fresh
      <4> QED
        BY <1>3, <4>2 DEF Dated
    <3>3. CASE ~Busy(v)
      BY <1>3, <3>1, <3>3 DEF Dated, SaveDated, RowReady, Fresh, Busy, WriteSteps
    <3> QED
      BY <3>2, <3>3
  <2> QED
    BY <2>1, <2>2
<1> QED
  BY <1>4, <1>5 DEF DatesInv

LEMMA StatementDated ==
    ASSUME TypeOK, OriginalInv, DatesInv, NEW u \in Users, Statement(u) \/ Killed(u)
    PROVE  DatesInv'
<1>1. PICK s \in Slugs : s = req[u].slug /\ Busy(u) /\ req[u] \in Request
  BY StatementRequest, BusyIsRequest DEF Killed, Request
<1>2. Dated(u) /\ RequestReady(u)
  BY DEF DatesInv, OriginalInv
<1>3. ASSUME End(u), backend' = backend, RecordsStay, StampsStay,
             \A v \in Users : page'[v] = page[v] \/ page'[v] = NoPage
      PROVE  DatesInv'
  <2>1. ~Busy(u)' /\ \A v \in Users \ {u} : req'[v] = req[v]
    BY <1>3 DEF End, Idle, Busy, WriteSteps, TypeOK
  <2> QED
    BY <1>3, <2>1, DatedKept DEF DatesInv
<1>4. ASSUME NEW at, Goto(u, at), backend' = backend, RecordsStay, StampsStay, page' = page,
             backend = "d1" /\ at \in {"imported", "check"} => over'[s] # NoRow,
             backend = "d1" /\ at = "upsert" => req[u].op # "save" \/
               (over'[s] # NoRow /\ over'[s].stamp = record[s].stamp)
      PROVE  DatesInv'
  <2>1. Dated(u)'
    BY <1>1, <1>2, <1>4, DatedGoesOn
  <2>2. \A v \in Users \ {u} : req'[v] = req[v]
    BY <1>1, <1>4, GoesOn
  <2> QED
    BY <1>4, <2>1, <2>2, OthersDated
<1>5. CASE InsertEntry(u)
  <2>1. RecordsStay /\ StampsStay /\ backend' = backend /\ page' = page
    BY <1>1, <1>5 DEF InsertEntry, RecordsStay, StampsStay, TypeOK
  <2>2. req[u].op # "save"
    BY <1>1, <1>2, <1>5 DEF InsertEntry, RequestReady
  <2>3. End(u) \/ Goto(u, "upsert")
    BY <1>5 DEF InsertEntry
  <2> QED
    BY <1>3, <1>4, <2>1, <2>2, <2>3
<1>6. CASE BaselineOverride(u)
  <2>1. /\ Goto(u, "imported") /\ UNCHANGED <<backend, record, page>>
        /\ over' = [over EXCEPT ![s] = BaselineRow(s)]
    BY <1>1, <1>6 DEF BaselineOverride
  <2>2. BaselineRow(s) # NoRow /\ (over[s] # NoRow => BaselineRow(s) = over[s])
    BY DEF BaselineRow, NoRow
  <2>3. StampsStay /\ RecordsStay /\ over'[s] # NoRow
    BY <2>1, <2>2 DEF StampsStay, RecordsStay, TypeOK
  <2> QED
    BY <1>4, <2>1, <2>3
<1>7. CASE BaselineRevision(u)
  <2>1. /\ AfterBaseline(u) /\ UNCHANGED <<backend, record, page, over>>
        /\ req[u].at = "imported"
    BY <1>7 DEF BaselineRevision
  <2>2. StampsStay /\ RecordsStay
    BY <2>1 DEF StampsStay, RecordsStay
  <2>3. backend = "d1" => over'[s] # NoRow
    BY <1>1, <1>2, <2>1 DEF Dated, RowReady
  <2>4. CASE End(u)
    BY <1>3, <2>1, <2>2, <2>4
  <2>5. CASE Goto(u, "check") /\ backend = "d1"
    BY <1>4, <2>1, <2>2, <2>3, <2>5
  <2>6. CASE Goto(u, "upsert") /\ ~(req[u].op = "save" /\ backend = "d1")
    BY <1>4, <2>1, <2>2, <2>6
  <2> QED
    BY <2>1, <2>4, <2>5, <2>6 DEF AfterBaseline
<1>8. CASE Check(u)
  <2>1. UNCHANGED <<backend, record, page, over>> /\ req[u].at = "check"
    BY <1>8 DEF Check
  <2>2. StampsStay /\ RecordsStay
    BY <2>1 DEF StampsStay, RecordsStay
  <2>3. CASE Stale(u)
    <3>1. ~Busy(u)' /\ \A v \in Users \ {u} : req'[v] = req[v]
      BY <1>8, <2>3 DEF Check, Busy, WriteSteps, TypeOK
    <3> QED
      BY <2>1, <2>2, <3>1, DatedKept DEF DatesInv
  <2>4. CASE ~Stale(u)
    <3>1. CASE backend = "d1"
      <4>1. Goto(u, "upsert")
        BY <1>8, <2>4, <3>1 DEF Check
      <4>2. over[s] # NoRow
        BY <1>1, <1>2, <2>1, <3>1 DEF Dated, RowReady
      <4>3. ASSUME req[u].op = "save" PROVE over[s].stamp = record[s].stamp
        BY <1>1, <1>2, <2>4, <3>1, <4>2, <4>3 DEF Stale, Dated, SaveDated
      <4> QED
        BY <1>4, <2>1, <2>2, <4>1, <4>2, <4>3
    <3>2. CASE backend # "d1"
      <4>1. PICK at : Goto(u, at)
        BY <1>8, <2>4 DEF Check
      <4> QED
        BY <1>4, <2>1, <2>2, <3>2, <4>1
    <3> QED
      BY <3>1, <3>2
  <2> QED
    BY <2>3, <2>4
<1>9. CASE UpsertOverride(u)
  <2>1. CASE Refuses(u)
    BY <1>3, <1>9, <2>1 DEF UpsertOverride, Refuses, RecordsStay, StampsStay
  <2> QED
    BY <1>9, <2>1, UpsertDated
<1>10. CASE ClearTerms(u) \/ InsertTerms(u)
  BY <1>4, <1>10 DEF ClearTerms, InsertTerms, RecordsStay, StampsStay
<1>11. CASE InsertRevision(u) \/ Killed(u)
  BY <1>3, <1>11 DEF InsertRevision, Killed, RecordsStay, StampsStay, TypeOK
<1>12. CASE ScheduleStub(u)
  <2>1. StampsStay
    BY <1>1, <1>12 DEF ScheduleStub, StampsStay, TypeOK
  <2> QED
    BY <1>3, <1>12, <2>1 DEF ScheduleStub, RecordsStay
<1> QED
  BY <1>5, <1>6, <1>7, <1>8, <1>9, <1>10, <1>11, <1>12 DEF Statement

LEMMA SchedulingDated ==
    ASSUME TypeOK, OriginalInv, DatesInv,
           \/ \E u \in Users, s \in Slugs, t \in 1..MaxNow : Schedule(u, s, t)
           \/ \E s \in Slugs : CancelScheduled(s)
           \/ RunScheduled \/ Tick \/ UNCHANGED vars
    PROVE  DatesInv'
<1>1. ASSUME StampsStay, UNCHANGED <<backend, record, page, req>> PROVE DatesInv'
  BY <1>1, DatedKept DEF DatesInv, RecordsStay
<1>2. ASSUME NEW u \in Users, NEW s \in Slugs, NEW t \in 1..MaxNow, Schedule(u, s, t)
      PROVE  DatesInv'
  <2>1. StampsStay
    <3>1. CASE over[s] = NoRow
      BY <1>2, <3>1 DEF Schedule, StampsStay
    <3>2. CASE over[s] # NoRow
      <4> DEFINE row == [over[s] EXCEPT !.sched = t, !.status = "draft"]
      <4>1. over' = [over EXCEPT ![s] = row]
        BY <1>2, <3>2 DEF Schedule, TypeOK
      <4>2. row # NoRow /\ row.stamp = over[s].stamp
        BY <3>2 DEF TypeOK, Row, NoRow
      <4> HIDE DEF row
      <4> QED
        BY <4>1, <4>2 DEF StampsStay, TypeOK
    <3> QED
      BY <3>1, <3>2
  <2>2. /\ UNCHANGED <<backend, record, page>> /\ \A v \in Users \ {u} : req'[v] = req[v]
        /\ req'[u].at = "stub" /\ req'[u].op = "schedule"
    BY <1>2 DEF Schedule, TypeOK
  <2>3. Dated(u)'
    BY <2>2 DEF DatesInv, Dated, PageDated, SaveDated, RowReady, Fresh
  <2> QED
    BY <2>1, <2>2, <2>3, OthersDated DEF RecordsStay
<1>3. ASSUME NEW s \in Slugs, CancelScheduled(s) PROVE DatesInv'
  <2> DEFINE row == [over[s] EXCEPT !.sched = Null]
  <2>1. over' = [over EXCEPT ![s] = row]
    BY <1>3 DEF CancelScheduled, TypeOK
  <2>2. row # NoRow /\ row.stamp = over[s].stamp
    BY <1>3 DEF CancelScheduled, TypeOK, Row, NoRow
  <2> HIDE DEF row
  <2>3. StampsStay
    BY <2>1, <2>2 DEF StampsStay, TypeOK
  <2> QED
    BY <1>1, <1>3, <2>3 DEF CancelScheduled
<1>4. CASE RunScheduled
  <2>1. ASSUME NEW s \in Slugs, over[s] # NoRow
        PROVE  over'[s] # NoRow /\ over'[s].stamp = over[s].stamp
    <3> DEFINE row == [over[s] EXCEPT !.status = "published", !.sched = Null]
    <3>1. over'[s] = row \/ over'[s] = over[s]
      BY <1>4 DEF RunScheduled
    <3>2. row # NoRow /\ row.stamp = over[s].stamp
      BY <2>1 DEF TypeOK, Row, NoRow
    <3> HIDE DEF row
    <3> QED
      BY <2>1, <3>1, <3>2
  <2> QED
    BY <1>1, <1>4, <2>1 DEF RunScheduled, StampsStay
<1>5. CASE Tick \/ UNCHANGED vars
  BY <1>1, <1>5 DEF Tick, vars, StampsStay
<1> QED
  BY <1>2, <1>3, <1>4, <1>5

LEMMA DatesStep ==
    ASSUME TypeOK, OriginalInv, DatesInv, [Next]_vars
    PROVE  DatesInv'
BY BeginsDated, StatementDated, SchedulingDated DEF Next

\* The step of a save that replaces a row it did not show.
Loses(u) ==
    LET s == req[u].slug
    IN backend = "d1" /\ Saves(u) /\ Shown(s) # req[u].page.seen
         => req[u].raced \/ over[s].stamp = record[s].stamp

\* On D1 a save replaces text its author never saw only in the window between its check
\* and its upsert, or within the second of the record's date: for any number of editors
\* who save, restore, create, schedule and die in any order.
THEOREM LossOnlyInWindow == Spec => UnseenLoss
<1>1. Init => DatesInv
  BY DEF Init, DatesInv, Dated, PageDated, SaveDated, RowReady, Fresh, Idle, Busy, WriteSteps
<1>2. (TypeOK /\ OriginalInv) /\ DatesInv /\ [Next]_vars => DatesInv'
  BY DatesStep
<1>3. DatesInv => \A u \in Users : Loses(u)
  BY DEF DatesInv, Dated, Fresh, Loses, Saves
<1>4. (\A u \in Users : Loses(u)) /\ [Next]_vars =>
        [\A u \in Users : LET s == req[u].slug
           IN backend = "d1" /\ Saves(u) /\ Shown(s) # req[u].page.seen
                => req[u].raced \/ over[s].stamp = record[s].stamp]_vars
  BY DEF Loses
<1> QED
  BY <1>1, <1>2, <1>3, <1>4, ContentInvariant, PTL DEF Spec, UnseenLoss
=============================================================================

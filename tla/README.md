# Astropress in TLA+

Astropress is a content system for Astro sites: an admin interface and an HTTP
API over one set of repositories, which run on `node:sqlite` when the site is
hosted on a Node process and on Cloudflare D1 when it runs in Workers. This
directory holds TLA+ models of the parts where the order of steps matters, TLC
configurations that check them on small instances, and proofs that TLAPS checks
for every value of the constants.

Paths below are relative to `src/packages/astropress/src/` unless they begin
with `src/`, `web-components/` or `pages/` (the last two are in
`src/packages/astropress/`). `PROJECT.json` holds the complete map from
definitions to lines of code.

To check one run: `tlc -config MCSite.cfg MCSite.tla`; `PROJECT.json` names the
module and configuration of each. To check the proofs of a module:
`tlapm Accounts_proofs.tla`.

## 1. The system

### Two backends, one difference that matters

The same repositories exist twice.

- **SQLite** (`sqlite-runtime/`, `*-repository-factory.ts`). `node:sqlite` is
  synchronous: what a handler does between two `await`s is one step of the
  process. Except where the code opens a transaction (`acquireLock`), each
  statement commits by itself, so a process that is killed leaves a prefix.
- **D1** (`d1-*.ts`, `runtime-actions-*.ts`, `sqlite-runtime/*-d1.ts`). Every
  statement is awaited. Requests of different workers interleave between any
  two of them, only `db.batch` is atomic, and a worker may be cut off at any
  await.

Which backend a deployment has is decided once (`admin-store-dispatch.ts`).
Nearly all the hard behaviour below comes from this: code written as one
sequence, correct when it runs alone, runs interleaved or in part.

### Components

| Component | State | Operations | Interacts with |
|---|---|---|---|
| Edit locks (`sqlite-runtime/locks.ts`, `d1-locks.ts`) | `content_locks`: slug, owner, token, expiry | acquire, refresh, release | lock indicator, over HTTP |
| Lock indicator (`web-components/ap-lock-indicator.ts`) | token, heartbeat timer | connected, heartbeat, disconnected | lock actions |
| Content store (`content-repository-factory*.ts`, `runtime-actions-content*.ts`) | `content_entries`, `content_overrides`, assignments, `content_revisions`; seed pages from files | save, PUT, DELETE, create, restore, list history | editor form, API, scheduler, plugins, audit |
| Scheduled publishing (`sqlite-runtime/content-submissions.ts`, `d1-store-content.ts`) | `scheduled_at` and `status` of an override | schedule, cancel, run due | cron job |
| Integrations (`sqlite-runtime/integrations*.ts`, `integrations/`) | `connected_integrations`, `integration_secrets` | connect, reverify, disconnect, set active, find secret | providers' APIs, root secrets |
| Root secret rotation (`src/tooling/scripts/rotate-integration-secrets.ts`) | environment variables | set, run the script, unset | integrations |
| Accounts (`auth-repository-factory.ts`, `user-repository-factory.ts`, `runtime-actions-users.ts`, `runtime-actions-password-reset.ts`, `d1-purge.ts`) | users, sessions, reset and invite tokens | login, logout, invite, accept, suspend, restore, reset, purge | middleware, e-mail, start of the process |
| Rate limits and OAuth nonces (`rate-limit-repository-factory.ts`, `d1-rate-limit-part.ts`, `integrations/oauth/`) | counters with a window | check, peek, record a failure, claim | login, API, OAuth, forms |
| Flash messages (`sqlite-runtime/flash.ts`, `flash-d1.ts`) | one-time rows | put, consume | admin forms |
| Migrations (`sqlite-bootstrap*.ts`, `d1-migrate-ops.ts`) | schema, `schema_migrations` | run, roll back | start of the process, command line |
| Route registry (`cms-route-registry-*.ts`, `runtime-route-registry-*.ts`) | groups, variants, revisions | create, save, seed | public pages, start of the process |
| Access control (`access/`, `runtime-actions-access.ts`) | roles, policies, grants, attributes | load a snapshot, decide, assign, revoke | every admin page, accounts |
| Media library (`runtime-actions-media*.ts`, `local-media-*.ts`, `runtime-media-storage.ts`) | `media_assets`; objects in a bucket or on disk | upload, delete | deploys |
| Import (`import/`) | downloads, state file, `media_assets` | run, resume, apply | source sites |
| Backup and restore (`sync/git.ts`) | project and snapshot directories | export, import | command line, the running site |
| API tokens, webhooks, plugins, taxonomies, authors, redirects, comments, submissions, translations, settings | one table each | mostly one statement per operation | admin actions |
| Deploy, scaffold, static build, sections and sanitization | files, remote sites | batch conversions | command line |
| Nexus, MCP server, `astropress-cli` | in-memory jobs and cache; none | proxying, project generation | a site's API |

### What is hard, and what makes each component correct

- **Edit locks.** Requests are posted by timers and callbacks, answers may come
  after the page is gone, rows expire by a clock, and only a random token says
  who owns what. Correct: two users never edit one slug, an editor who beats
  keeps the lock, nobody else ends it, and an abandoned lock becomes free.
- **Content store.** A write is four to eight statements; conflict detection
  compares dates. Correct: the original is never lost, what is shown is in the
  history, and nobody's text is replaced unseen.
- **Scheduled publishing.** Correct: what is scheduled is published or
  withdrawn, whatever else happens to the row.
- **Integrations.** Calls to providers and cryptography are awaited in the
  middle of a read or a write. Correct: the stored secret is the one connected
  last, a connected provider has one, one provider is active per domain, and
  rotation loses nothing.
- **Accounts.** Passwords are hashed and links looked up in awaits of their own,
  and every start of a process writes the bootstrap accounts again. Correct: a
  replaced password and a suspension leave no session, a link sets one password,
  an account has one open link, and somebody stays who can let the others in.
- **One-time stores and limits.** A check and a write that are one step on SQLite
  and two on D1. Correct: what was shown is gone, what is limited stays limited,
  an OAuth state is used once.
- **Migrations.** A file, its statements and its record are separate commits on
  SQLite and one batch on D1. Correct: recorded exactly if in force.
- **Routes.** Group, variant and revision are written one after the other, and
  seeded again at each start. Correct: the newest revision is what is shown, a
  taken path is refused before anything is written.
- **Access control.** A request decides by four reads that tables change
  between. Correct: nothing is allowed that no policy allowed, no deny that
  stood throughout is missed, nothing is refused without a reason.
- **Media, import, backup.** A row and an object, a file and a state file, two
  directory trees: two stores without a common transaction. Correct: what is
  listed, completed or restored is there and whole.

All hazards, each with its line of code and the properties that would catch it,
are under `hazards` in `PROJECT.json`.

## 2. The modules

| Module | Models | Lives on |
|---|---|---|
| `EditLease` | abstract: what a lock promises, whatever the backend | |
| `ContentLocks` | SQLite locks, lock indicator, network, time | implements `EditLease` |
| `ContentLocksD1` | `acquireLock` on D1, await by await | |
| `Integrations` | integrations on SQLite and the rotation | |
| `IntegrationsD1` | the D1 repository | extends `Integrations` |
| `Content` | content store and scheduling, both backends | |
| `Accounts` | accounts, sessions, links, both backends | |
| `Access` | roles, policies, grants and decisions on D1 | |
| `Migrations` | migrations and rollbacks, both backends | |
| `Flash` | flash messages, both backends | |
| `RateLimits` | rate limits and OAuth nonces, both backends | |
| `Routes` | route registry, both backends | |
| `Media` | media rows and objects, both backends | |
| `Imports` | media of a WordPress or Wix import | |
| `Backups` | export to and import from a snapshot directory | |
| `Stores` | `Integrations`, `IntegrationsD1`, `ContentLocksD1`, `Migrations`, `Flash`, `RateLimits`, `Routes` side by side | extends the first, instances of the others |
| `Site` | `Content`, `Access`, `Media`, `Imports`, `Backups` side by side | extends the first, instances of the others |
| `*_proofs` | theorems and proofs about the module of that name (8) | extends it and `TLAPS`; `Integrations_proofs` extends `IntegrationsD1` and covers both backends; `Stores_proofs` and `Site_proofs` take it, `Access_proofs` and `Media_proofs` as instances |
| `MCStores`, `MCSite` | one part of `Stores` or `Site` at a time | extends it |
| `MCLive` | liveness of `ContentLocks` and `Content` | extends one, an instance of the other |
| other `MC*` | small instances for TLC | extends or instances the module of that name |

In all of them an operator that ends in `_something` and is commented as a
mutant is the definition of that name with a plausible bug. The mutants are not
part of any specification; `PROJECT.json` says which property each one breaks.

### ContentLocks

State: `locks` is the table, `elem` the element of each tab (its page is
`none`, `connected` or `removed`; token; time to the next beat), `msgs` the
requests and answers under way, and `superseded` a history variable: tokens
replaced because the same user acquired again.

Every server operation is atomic in the code (`BEGIN IMMEDIATE`, or one
statement) and so is its action. `AcquireConflict` leaves the expired rows in
place because the transaction that deleted them is rolled back. `Refresh`
compares the token and nothing else: it revives an expired row that has not
been deleted, as `UPDATE ... WHERE slug AND lock_token` does.

The client's callbacks are split at their awaits: `Connect` posts the acquire,
`ReceiveGrant` is the rest of `connectedCallback`. Between the two the element
may be disconnected; `ReceiveGrant` then starts a timer that nobody stops, as in
the code. `Unload` is a page that goes away without a callback; what it posted
may still arrive.

Time is relative. A row has the time it has left, a timer the time to its next
beat, a message its age; no clock grows. `Reliable` says whether messages are
lost or late and timers held up; the timing properties need it, the others do
not.

Left out: an element that is moved inside its document, which disconnects and
connects while keeping the old token; the banner's text; and the check that the
session may edit (`withAdminFormAction`). No page of the repository mounts the
element yet, so a save does not depend on the lock and the two models are not
composed.

### ContentLocksD1

A client is at one of the awaits of `acquireLock` or idle. Between `Select` and
`Upsert` anything may happen, and the upsert overwrites what it finds: two users
can both be granted the lock. This backend therefore does **not** implement
`EditLease`. What it does promise, `StealOnlyByOverlap`, is the precise extent
of that: only overlapping requests collide. The history variable `raced` marks a
client whose `SELECT` is older than the row.

### Integrations and IntegrationsD1

State: `status` (row and active flag of each provider), `secret` (its sealed
record), `req` (what each handler awaits), `env` (root secrets and how far the
operator is), `latest` (history: what was connected last).

A sealed record is its content, the root that opens it and a ciphertext. That
ciphertexts are random is the one fact about cryptography the code relies on:
the guarded `UPDATE ... AND ciphertext = ?` (`SQL_RESEAL_GUARDED`) is only as
good as that.

On SQLite handlers interleave where they await: `Begin` / `ConnectWrite`,
`Begin` / `Reverified`, `BeginRead` / `EndRead` or `EndReadReseal`.
`ConnectKilled` and `SetActiveKilled` are a process killed between two
statements. On D1 `connect` is the batch, then `CountActive`, then `MarkActive`,
and `WorkerDies` may cut it off at each.

`Rotate`, `RotationScript` and `UnsetPrevious` are the three steps the script's
header tells the operator. The script's reseal of rows is not a disjunct of its
own: it handles the rows whose `kid` is `previous`, and no statement of the
system writes that value (`RotationScript`'s guard states it). Each deploy
restarts the process and ends its requests.

### Content

State: `record` (seed pages and `content_entries`, never changed once there),
`over` (`content_overrides`), `terms` (authors, categories and tags), `revs`,
`page` (the form a user has open, with the date it carries), `req` (how far a
user's request is), the clock and a counter of edits, and `settled` (history:
slugs whose last write ran alone and to its end).

A submitted text is a number, and the terms that come with it are that number as
well; so whether a slug shows one save's text with another's terms is visible. A
request is a record with its next statement in `at`, and one action per
statement moves it on:

    save, SQLite   check, baseline, imported, upsert, clear, terms, revision
    save, D1       baseline, imported, check, upsert, clear, terms, revision
    PUT            the same without a date to check
    restore        baseline, imported, upsert, clear, terms, revision
    create         entry, upsert, revision
    history        baseline, imported                     (SQLite only)
    schedule       the UPDATE, then the INSERT of a row   ("stub")

`MayRun` is the whole difference between the backends' scheduling: on SQLite
nothing runs between two statements of a handler. `Killed` cuts a handler off
after any statement. It also stands for the ways a handler ends early after it
has written the baseline (a field that fails validation on D1, a revision that
does not exist): the same statements are committed.

Left out: the audit log (only appended to), the metadata column, deletion of
entries by import and sync, locale and field validation, and the earlier read in
`PUT`, whose values are whatever the client submits.

### Accounts

State: `accounts` (the row an address has: how many rows the address has had,
how often its password was set, whether it is active), `sessions` and `links`
(the rows that are still good for something, with the account and, for a
session, the password it was opened with), `req` (what each request does next),
`ops` (which operations a behaviour sees, to keep TLC's part small) and `cut`
(history: accounts that were changed without a revocation after it).

    login         open, insert                     password verified, then a session
    issue         retire, issue                    old links closed, a new one
    reset         password, close, revoke          SQLite and D1, one link
    accept        password, close                  an invitation; nothing is revoked
    suspend       seek, deactivate, revoke
    restore       seek, activate
    invite        seek, create, invite
    erase, delete seek, purge, erase               d1-purge.ts and its SQLite twin

On SQLite only the two awaits named in the module's header let others in; on D1
each statement does. `Die` cuts a request off at any of them. Two requests of
one address that are under way together are `raced`, and the sessions and links
they make carry that mark: it is what the properties use to say how far the code
goes and where it does not. `Reseed` is a start of the process on SQLite
(`seedBootstrapUsers`): it sets the password of a bootstrap account again and
reactivates it, with its old links and sessions.

### Migrations, Flash, RateLimits, Routes

`Migrations`: a directory of files, the table and what is in force of each
migration, statement by statement. Commands overlap and are cut off (`CutExec`,
`CutRecord`); `Batch` and `BatchBack` are D1's. Three constants say which files
exist, which can be executed twice, and which begin with a comment; the D1
splitter drops a statement after a comment, so such a file is recorded and not
in force. `hurt` marks the migrations a SQLite command was cut off in or two
commands met at.

`Flash`: `Put` and `Consume` are SQLite's; `Sweep`, `Insert`, `Select`, `Delete`
D1's.

`RateLimits`: windows with a count. A form's check counts and decides, a login
peeks and counts only failures, an OAuth nonce is a limit of one. `Write` is the
second await of D1, `raced` marks what was written over what was not read.

`Routes`: a group, a variant (its text) and the newest revision of each path,
the requests that create or save, and `start`: a process that seeds the code's
routes one after the other and fails where a path is taken by another group.

### Access

State: the six tables, and `req`: what each request has loaded. `ReadAccount` is
the first read; the three of `Promise.all` end in any order (`Ended`), and a
change of the tables may come between any two. `Can` is `engine.can` with that
snapshot: `Decides` is `evaluate` and `Satisfied` is `evaluateCondition`, a
recursive function over the condition trees. `seen` is a history variable: what
stood in the tables for the request's user at each moment of its load.

On SQLite the load is one synchronous call; it is a behaviour of this model in
which nothing changes meanwhile.

### Media, Imports, Backups

`Media`: rows and objects, each in one of two places. `Upload` and `Delete` are
SQLite's, `UploadKilled` and `DeleteKilled` a process killed between the two
writes; on D1 each await is an action. `Rebind` is a deploy with or without
`MEDIA_BUCKET`.

`Imports`: the loop over attachments, the state file, and three ways of being
killed: between writes, in the middle of a file, in the middle of the state file.
WordPress writes its state at the end and skips what is completed and has a file
of its name; Wix writes it after each image, skips what is completed, and knows
an image by its position in the export: `ExportAgain` is a later export with an
image more in front.

`Backups`: a list of entries is removed and copied one after the other.
`Enter` empties or begins an entry, `Copied` ends it, `Refuse` is a database
that fails its check; `Edit`, `Drop` and `Corrupt` are the site meanwhile.

### Stores, Site

The modules above share no table, file or request, so each is also proved on its
own. `Stores` and `Site` put them side by side with the assumptions a deployment
satisfies: a step of the whole (`StoresNext`, `SiteNext`) is a step of one part and
leaves the variables of the others alone. `StoresSpec` and `SiteSpec` are the
specifications the theorems speak of, with every interleaving of the parts. TLC
does not enumerate that product, in which nothing new can happen: the runs take
the behaviours in which one part moves. Neither composes components that
interact; which ones would be worth it is in the plan.

## 3. The runs

Five runs hold, seven find a violation of something the repository says.

| Run | Properties | Bounds | Size |
|---|---|---|---|
| `locks_keep` | `TypeOK`, `HeartbeatKeepsLock`, `ExclusiveEditing`, `KeepInv` | 2 users, 1 tab each, 1 slug, TTL 5, beat 2, latency 1, a page opens only while fewer than 2 messages travel | 1.25 M states |
| `live` | `AbandonedLockLapses`, `ImplementsLease`, `OnlyOwnerEndsLock`, `ScheduleRuns` | locks: 2 users, TTL 2, beat 1, unreliable, a page opens only while no message travels; site: 2 users, 1 edit, 2 seconds, a dated form | 316 k |
| `stores` | `TypeOK`, `LatestCredentialsKept`, `SecretsInv`, `OnlyUnsetLocksOut`; `StoresTypeOK`, `ConnectedHasSecret`, `LatestCredentialsKeptD1`, `StealOnlyByOverlap`, `RecordedIffInForce`, `GoneOnceShown`, `LimitHolds`, `StateUsedOnce`, `NewestIsShown`, `RefusedLate`, `StartFailsOnTaken` | 1 provider, 3 handlers, 3 roots; D1 lock: 2 clients of one user, 1 of another; 2 migrations, 2 commands; 2 messages, 3 requests; a form, a login, a nonce, 2 requests; a page, a system route, 2 editors | 878 k |
| `accounts` | `TypeOK`, `OldPasswordOut`, `SuspendedOut`, `OneResetLink`, `LinkSetsOnce`, `LastOneStays` | 2 addresses, 2 requests, 2 sessions, 2 links, both backends, three mixes of operations | 696 k |
| `site` | `TypeOK`, `ShownIsASnapshot`, `OriginalRestorable`, `UnseenLoss`; `SiteTypeOK`, `AllowedWasGranted`, `RefusedWithReason`, `LiveRowHasFile`, `CompletedIsWhole`, `RestoredIsSnapshot` | content: both backends, seed page or created post, 2 users, 2 edits, 2 seconds (877 k); access: 1 user, 1 role, 3 policies, 1 request, 5 changes (258 k); media: 3 ids, 2 requests, 1 deploy (86 k); imports: 3 attachments, 2 runs (64 k); backups: 2 entries, 4 edits (30 k) | 1.32 M |

In `MCStores`, `MCSite` and `MCLive` each behaviour is one of a single part, named
by a variable, and the others stand still. They are one run each because the parts
ask one kind of question at one size. The theorems about `StoresSpec` and `SiteSpec`
say that the properties hold as well when all parts move.

**What they show.** `locks_keep`: with a round trip and a period inside the time
to live, heartbeats keep the lock and two users never edit one slug with valid
tokens. `live`: on any network the lock still implements the abstract lease, is
ended by its owner alone, and lapses when nobody holds it; no status and no
interrupted write makes the job pass over a schedule. `stores`: a read that
reseals never overwrites newer credentials or revives disconnected ones, and
only the step that unsets the previous root can lock a secret out; no
interleaving or death on D1 leaves "connected" without a secret; on D1 only
overlapping requests steal a lock, show a message twice, pass a limit or use a
state twice; and the cut-off commands, saves and starts that separate a record
from what it records are the ones each property names. `accounts`: sessions of
a replaced password or a suspended account come from overlap, death,
invitations and starts, from nothing else. `site`: a write nothing disturbed is
in the history whole, the original is never overwritten first, and an update is
lost only in its windows; and torn snapshots, dying uploads, resumed imports and
interrupted restores promise what section 1 says of them.

**Why the bounds are enough.** Two users are what exclusion is about; a third
adds another of the same. A tab that closes and opens again makes the same
user's second acquire, so a second tab per user is not needed on SQLite (D1 has
one, since there two acquires of one user must overlap). Timing constants are
the smallest that satisfy and exercise the inequality of the code's 5 minutes,
4 minutes and a round trip; the proofs cover all others. Three handlers are a
read, a connect and a disconnect or a second read at once; three roots are two
rotations, so a record can be two roots behind. Two edits give a lost update,
and a third text comes from the seed or the created entry. Two seconds give a
stamp that is equal and one that differs. Two requests of one address are an
overlap, and two addresses two administrators who suspend each other; passwords
and rows of an address are counted to 1, so TLC sees no address whose account is
deleted and invited again, which the proofs cover. The mixes keep the
operations together that write the same rows. Two commands are what may meet at
a migration, two migrations what may be recorded out of order. Three attachments
are two that share a name and one that does not. Access has one user because a
snapshot is one user's, and three policies that allow, allow on a condition, and
deny on an attribute that is absent.

Symmetry is declared for the two users of the content store, for two requests of
each store in `stores`, and for addresses, requests, sessions and links of
`accounts`; no liveness run uses it.
`CHECK_DEADLOCK FALSE` stands where a bound ends what can happen (edits, the
clock, changes, ids); `locks_keep` never stops.

**Fairness.** The safety runs assume none. `ContentLocks!Fairness`: time passes,
the server answers some request and the browser delivers some answer if there
is one, and timers fire. Users owe nothing: nobody has to close a page.
Messages may still be lost. `Content!Fairness`: time passes, a handler that
started goes on (or is killed), and the cron job calls
`runScheduledPublishes` again and again. The last is strong fairness because on
SQLite a running handler disables the job for a moment each time;
`src/docs/guides/OPERATIONS.md:173-204` tells the operator to call it every five
minutes, which is what justifies it. Without that cron job nothing is ever
published on schedule. `MCLive` states the same fairness for the part that moves.

### What the code does that its documents deny

- `integrations_active`: two providers of a domain carry `is_active=1`. A
  provider in error keeps its flag, `hasActiveProvider` does not see it, and a
  second one is marked; a reverification brings the first one back as active.
- `integrations_rotation`: followed to the letter, the rotation makes secrets
  unreadable. The script looks for rows with `kid='previous'`, which nothing
  writes, reports that none remain, and the operator unsets the old root.
- `content_stale`: on SQLite a stale save is never refused; the date it compares
  belongs to the record, which no save changes.
- `content_conflict`: on D1 the first save of a seed page is refused as modified
  by another editor, because it is compared with the baseline the handler has
  itself just written.
- `content_delete`: the API's `DELETE` answers 204 and archives nothing.
- `migrations_down`: on SQLite a companion `.down.sql` file is run by the next
  migrate as if it were a migration, which takes its own migration out of force.
- `backup_database`: the list of entries a backup copies
  (`sync/git-data.ts:6-14`) leaves out the directory of the default database,
  which the recovery table says a backup is for.

Divergences met while reading, in parts without a run of their own:

- `connect-flow.ts:113-118` says a failed connect persists an `error` row while
  136-141 persists nothing; the model follows the code (`ConnectRejected`).
- The SQLite rollback deletes the record of a migration without rollback SQL
  where its comment says it returns null (`sqlite-bootstrap-migrations.ts:99-113`);
  the D1 runner drops a statement that follows a comment line
  (`splitSqlStatements`) and records the migration as applied.
  `RecordedIffInForce` exempts both by name.
- Every start opens the bootstrap accounts again (`Accounts!Reseed`), while
  `src/docs/guides/OPERATIONS.md:213` and the command-line tool's `auth.rs:31`
  tell the operator that `ADMIN_BOOTSTRAP_DISABLED` is the switch for them.
- `assertNotLastActiveAdmin`, which `runtime-actions-access.ts:9-12` says such
  operations must call, is called by tests only; `LastOneStays` holds by the
  refusal to suspend oneself, except for crossing suspensions.
- `OPERATIONS.md:68` calls an import safe to run again; it overwrites what
  editors changed since. `OPERATIONS.md:65` says completed assets are skipped;
  two WordPress attachments with one basename count as one file.

## 4. The proofs

Each theorem holds for every value of the constants under the module's named
assumptions on them. `Access` and `Media` declare none; their theorems name what
they need (`Constants`), and `Site` assumes it of the constants it gives them. Every
safety and action property the passing runs check is stated by a theorem.

**ContentLocks_proofs.**
`Knowledge` is the inductive invariant behind all seven theorems: types; rows are
absent or complete; an element has a token only while its page lives; a page
waits for at most one answer; a token is known to one page, and not before its
grant arrives; a release under way is for a token nobody will use again; and
whoever knows the token of a row is its owner. The properties alone are not
inductive: a late release of another user's token would refute
`OnlyOwnerEndsLock`, and only `TokensAreSecret` with `ReleaseIsFinal` excludes
it.

- `KnowledgeInvariant`: `Spec => []Knowledge`, on any network.
- `LockEndedByOwner`: `OnlyOwnerEndsLock` from `TokensAreSecret`.
- `LocksImplementLease`: the refinement. A row maps to its owner and time left
  while it is live and to `Free` otherwise; each action maps to `Take`,
  `GiveUp`, `Pass` or a stutter.
- `HeartbeatKeeps` and `EditingIsExclusive` assume `Timing`: the network is
  reliable, `2 * Latency + Beat < TTL` and `Latency < Beat`. `KeepInv` adds to
  `Knowledge` how much time a row has lost since what renewed it was sent: at
  most a trip and the time since the last beat, or that plus a period while the
  beat is still under way (`BeatKeeps`), so the row never reaches zero.
- `LocksTyped` and `KeepInvariant`: `TypeOK` and `KeepInv`, as the run checks
  them, under any timing; the part about time is vacuous on a lossy network.

**Integrations_proofs.** `SecretsInv` says of every read under way that if the
ciphertext it read is still stored, the whole record is still the one it read
(`SealFixesFields`); this is what makes the guarded update safe, and it rests on
fresh ciphertexts. From it: `SecretsInvariant`, `ReadNeverClobbers`
(`LatestCredentialsKept`), `OnlyUnsetLocksSecretsOut` and `IntegrationsTyped`.
What both backends share is stated once, without their types of requests
(`Sealing`, `SealingKept`, `SealingReplaced`, `SealingResealed`). On D1 it is
combined with `RowsTogether`: a provider has a status row and a secret or
neither. `ConnectedHasSecret` alone is not inductive: a reverification may set a
row to connected, so a row in the state "error" needs its secret too. From it:
`D1Invariant`, `ConnectedKeepsSecret` (`ConnectedHasSecret`) and
`ReadNeverClobbersD1` (`LatestCredentialsKept` for `Spec1`).

**Content_proofs.** `OriginalInv` says that nothing is stored for an unknown
slug, that an open page belongs to a known one, and, for each request by the
statement it has reached (`RequestReady`), that whoever is about to overwrite
has the original in the history. From it: `ContentInvariant`, `ContentTyped` and
`OriginalStays` (`OriginalRestorable`), on both backends, with any
interleaving and any handler cut off at any statement.

`ShownIsASnapshot` speaks of the moment after the last of three statements, so
its invariant has to say what holds between them. `WritesInv`: a slug without a
row has no assignments; nobody is writing a settled slug; and a handler that
nothing disturbed (`alone`) is the only writer of its slug and finds the row it
wrote and the assignments it cleared or inserted. `HandlersInv` supplies what a
create needs, which clears no assignments: on SQLite one handler runs at a time,
so its slug has no row. The steps that write no part of this are one lemma
(`QuietKeeps`); the upsert, the two steps on assignments and the revision have
one each. From it: `SnapshotShown`.

`UnseenLoss` rests on `DatesInv`: a page and the save it submits carry the date of
the record; on D1 the row exists when the check is reached; and a save that has
passed its check, and was not raced, still finds the row with the record's date.
From it: `LossOnlyInWindow`.

**Accounts_proofs.** None of the properties is inductive: each needs to know
what a request that is under way has already read. `AccountsInv` adds that:
`Owned` (sessions and links belong to the account the address has now, by
`ON DELETE CASCADE` and because ids are not used again), `OverlapSeen` (of two
requests of one address that are under way both are marked), `LoginFresh` (a
login nobody overlapped still has the password it verified), `ErasureSweeps`,
`IssueAlone`, `LinkUses` (a link that has set a password is being closed) and
`NotOneself`. The proof follows four kinds of step: a request begins
(`Begins`), rows disappear (`Drops`: logout, expiry, revocation), a process
starts (`Reseed`), or a request takes its next statement (`Statement`), with one
lemma per part of the invariant for each. From it: `AccountsTyped`,
`AccountsHold`, `PasswordReplaced` (`OldPasswordOut`), `SuspensionHolds`
(`SuspendedOut`), `OneLinkOpen` (`OneResetLink`), `LinkOnce` (`LinkSetsOnce`) and
`SomebodyStays` (`LastOneStays`).

**Access_proofs.** `Snapshots` says of a request that each part it has read is
that part of something in `seen`, and that what it sees now is in `seen` while it
loads (`Witnessed`). So a policy that stood throughout is in the snapshot, and a
policy of the snapshot stood at some moment; what a condition computes is never
looked into. From it: `AccessHold`, `GrantedOnly` (`AllowedWasGranted`) and
`RefusedOnlyWithReason` (`RefusedWithReason`).

**Media_proofs.** `MediaInv`: names are given out once, an upload's objects are
there before its row, a variant has no row of its own, and whoever removes an
object has marked its row. From it: `MediaHold` and `ListedHasFile`
(`LiveRowHasFile`).

**Stores_proofs.** One section for each store, one invariant each, kept by each
action of the store; the last section combines them (`StoresHold`): a step of the
whole is, to each store, a step of its own or a stutter (`StoresMove`), so the
conjunction is inductive and each property follows from its part. None of the
properties is inductive by itself, since each speaks of one table and a request that
waits has read it before.

- *Edit lock on D1* (`StealsOverlap`). `ReadHolds`: for a request past its `SELECT`
  the row is free or its own user's, unless another upsert of the slug has put it in
  `raced`. Only an upsert gives a row an owner (`OwnersKept`).
- *Schema* (`RecordsAgree`). `TableKnown`: a command on SQLite that nobody came
  across still knows the table: what it is to migrate is not recorded, what it is to
  roll back is. `Agreement`: a migration that is not hurt is in force exactly when it
  is recorded, or a command has run its script and the record is what it does next.
  `BatchesWhole`: on D1 no command is between the two, so the record is right unless
  the splitter drops a statement. `CommandsFit` and `RowsBack` say which files a
  command or a rollback may be about. That names in the table are distinct is part of
  `TypeOK`.
- *Flash* (`MessagesGoOnce`). Whoever is about to insert has its id alone and nobody
  was shown it (`InsertsAlone`, `InsertsUnseen`), so a message is not put back after
  it was taken.
- *Limits* (`LimitsAllowNoMore`). Where nobody raced the row says how often the key
  was used (`Counted`), and a form's request that goes on to count found the row below
  the limit (`FormsNext`). For logins the bound is on a sum: the count, and the
  requests that are still verifying a password, are together at most `Max - 1` plus
  the requests there are (`LoginWithin`), because each of them found the count below
  `Max`; the argument counts the finite set `Guessing`.
- *OAuth states* (`StatesUsedOnce`). A nonce that was claimed has a row no older than
  the claim (`NonceClaimed`), and whoever begins its window anew has found it over
  (`NonceOver`). As the window is at least as long as a state lives, a second claim
  took longer than the property allows.
- *Routes* (`RoutesShowNewest`, `RoutesRefuseFirst`, `StartsFailOnTaken`). A text
  without its revision is of a request that is about to add it and was not overtaken
  (`RevisedOrAbout`); a group without a text has somebody who is about to insert it,
  or was left by one that was cut off (`GroupsOwned`).
- *Integrations on D1* (`ConnectedHasSecretHolds`, `LatestCredentialsKeptOnD1`).
  `Integrations_proofs`, instantiated with this store's variables; `D1Same` says that
  the instance speaks of the same steps and properties.
- `StoresTyped`: the types of all of them.

**Site_proofs.** The same for the parts of `Site` (`SiteHold`, `SiteTyped`).

- *Access control and media* (`AllowedWasGrantedHolds`, `RefusedWithReasonHolds`,
  `LiveRowHasFileHolds`): instances of `Access_proofs` and `Media_proofs`.
- *Imports* (`CompletedIsWholeHolds`). The state file is written from what the run has
  in mind, so the invariant says of the run, too, that what it calls completed is
  whole or exempt. That a download or a failure does not spoil what is completed needs
  the order (`InOrder`): an attachment is completed before its turn only if the state
  file said so, and then it is skipped, or WordPress has no file of it, which makes it
  exempt already (`TurnIsExempt`). Another attachment of its name makes it shared
  (`OneName`, `OthersStay`).
- *Backups* (`RestoreIsWhole`). `BackupsInv` says how far an import has come: an entry
  before its turn is nothing or already what the snapshot holds, after it the
  snapshot's. The second alternative is what lists with repeated entries need.

**Only model-checked.** The two liveness properties, `AbandonedLockLapses` and
`ScheduleRuns`, since fairness and `ENABLED` are out of the prover's reach. The
seven violations are counterexamples of TLC. What `Satisfied` computes for a
condition is never looked into by a proof: that would be induction over the
condition trees. No module declares a recursive operator.

## 5. Plan

Done so far: the locks, the integrations, the content store, and what the first
plan put after them (accounts, one-time stores, migrations, routes, access), and
media, imports and backups besides; and a theorem for every safety property the
runs check. In the order of what matters most, next:

1. `EditingSession`: `ContentLocks` composed with `Content`, for the rule that
   an editor saves only while it holds the lock. It becomes worth stating when a
   page mounts the lock indicator; with it the lost updates of `content_stale`
   should disappear on SQLite.
2. An abstract "claimed at most once" that SQLite's flash messages and nonces
   implement by refinement, and D1's two statements up to overlap.
3. The composition of `Accounts` and `Access`: a request's snapshot against the
   suspension and erasure that `Access` has as single steps.

## 6. Not modelled

`PROJECT.json` lists every component with the reason. In short: conversions of
text and markup (sections, sanitization, importers, static build) have data, not
steps; adapters, deploy targets, e-mail and providers are calls of external
services, which appear here as the outcomes their callers handle; repositories
with one statement per operation have nothing to interleave; the admin pages
render what the repositories return; and Nexus, the MCP server and the
command-line tool keep no persistent state.

------------------------------- MODULE Stores -------------------------------
(***************************************************************************)
(* The stores that share no table with each other, side by side: the       *)
(* integrations on both backends, the edit lock on D1, the schema, flash   *)
(* messages, rate limits and the route registry.  A step of the whole is a *)
(* step of one of them and leaves the tables of the others alone.          *)
(***************************************************************************)
EXTENDS Integrations

CONSTANTS
    LkSlugs, LkUsers, LkClients, LkUserOf, LkTokens, LkNoToken, LkNoOne, LkTTL,
    MgLast, MgCommands, MgWritten, MgTolerant, MgCommented,
    FlRequests, FlIds, FlTTL, FlMaxNow,
    RlRequests, RlForms, RlLogins, RlNonces, RlMax, RlWindow, RlMaxNow,
    RtPaths, RtSystem, RtRequests, RtMaxText

VARIABLES
    d1Status, d1Secret, d1Req, d1Env, d1Latest,
    lkLocks, lkReq, lkGrant, lkRaced,
    mgBackend, mgFiles, mgTable, mgEffect, mgCommand, mgHurt,
    flBackend, flNow, flRows, flReq, flUsed, flShown,
    rlBackend, rlNow, rlWindows, rlReq, rlUsed, rlRaced, rlFirstUse,
    rtBackend, rtSeeds, rtGroups, rtShown, rtNewest, rtBaseline, rtStart, rtReq, rtTorn,
    rtHalved

\* Integrations on D1, over the same provider, handlers and credentials.
D1 == INSTANCE IntegrationsD1 WITH
        status <- d1Status, secret <- d1Secret, req <- d1Req, env <- d1Env, latest <- d1Latest

Locks == INSTANCE ContentLocksD1 WITH
        Slugs <- LkSlugs, Users <- LkUsers, Clients <- LkClients, UserOf <- LkUserOf,
        Tokens <- LkTokens, NoToken <- LkNoToken, NoOne <- LkNoOne, TTL <- LkTTL,
        locks <- lkLocks, req <- lkReq, grant <- lkGrant, raced <- lkRaced

Schema == INSTANCE Migrations WITH
        Last <- MgLast, Commands <- MgCommands, Written <- MgWritten,
        Tolerant <- MgTolerant, Commented <- MgCommented,
        backend <- mgBackend, files <- mgFiles, table <- mgTable, effect <- mgEffect,
        command <- mgCommand, hurt <- mgHurt

Messages == INSTANCE Flash WITH
        Requests <- FlRequests, Ids <- FlIds, TTL <- FlTTL, MaxNow <- FlMaxNow,
        backend <- flBackend, now <- flNow, rows <- flRows, req <- flReq, used <- flUsed,
        shown <- flShown

Limits == INSTANCE RateLimits WITH
        Requests <- RlRequests, Forms <- RlForms, Logins <- RlLogins, Nonces <- RlNonces,
        Max <- RlMax, Window <- RlWindow, MaxNow <- RlMaxNow,
        backend <- rlBackend, now <- rlNow, windows <- rlWindows, req <- rlReq,
        used <- rlUsed, raced <- rlRaced, firstUse <- rlFirstUse

Registry == INSTANCE Routes WITH
        Paths <- RtPaths, System <- RtSystem, Requests <- RtRequests, MaxText <- RtMaxText,
        backend <- rtBackend, seeds <- rtSeeds, groups <- rtGroups, shown <- rtShown,
        newest <- rtNewest, baseline <- rtBaseline, start <- rtStart, req <- rtReq,
        torn <- rtTorn, halved <- rtHalved

-----------------------------------------------------------------------------
(* What a deployment gives each store *)

\* Sites have pages, and every client is somebody's.
ASSUME LocksAssumption ==
    /\ LkSlugs # {}
    /\ LkUserOf \in [LkClients -> LkUsers]
    /\ LkNoOne \notin LkUsers
    /\ LkTTL \in Nat

\* Migrations are numbered; what a developer adds are their files.
ASSUME SchemaAssumption ==
    /\ MgLast \in Nat
    /\ MgWritten \subseteq [of : 1..MgLast, down : BOOLEAN]

\* There are ids, and a message lives for a time.
ASSUME MessagesAssumption == FlIds # {} /\ FlTTL \in Nat /\ FlMaxNow \in Nat

\* Keys carry the name of what they limit ("login:...", the form's name, "oauth-nonce:..."),
\* so that no key is of two kinds; every limit allows something.
ASSUME LimitsAssumption ==
    /\ IsFiniteSet(RlRequests)
    /\ RlForms \cup RlLogins \cup RlNonces # {}
    /\ RlForms \cap RlLogins = {} /\ RlForms \cap RlNonces = {} /\ RlLogins \cap RlNonces = {}
    /\ RlMax \in Nat \ {0} /\ RlWindow \in Nat /\ RlMaxNow \in Nat

\* There are paths, system routes among them, and something to say on each.
ASSUME RegistryAssumption ==
    /\ RtPaths # {}
    /\ RtSystem \subseteq RtPaths
    /\ RtMaxText \in Nat \ {0}

-----------------------------------------------------------------------------
d1Vars == <<d1Status, d1Secret, d1Req, d1Env, d1Latest>>
lkVars == <<lkLocks, lkReq, lkGrant, lkRaced>>
mgVars == <<mgBackend, mgFiles, mgTable, mgEffect, mgCommand, mgHurt>>
flVars == <<flBackend, flNow, flRows, flReq, flUsed, flShown>>
rlVars == <<rlBackend, rlNow, rlWindows, rlReq, rlUsed, rlRaced, rlFirstUse>>
rtVars == <<rtBackend, rtSeeds, rtGroups, rtShown, rtNewest, rtBaseline, rtStart, rtReq,
            rtTorn, rtHalved>>

storesVars == <<vars, d1Vars, lkVars, mgVars, flVars, rlVars, rtVars>>

StoresInit ==
    Init /\ D1!Init /\ Locks!Init /\ Schema!Init /\ Messages!Init /\ Limits!Init /\ Registry!Init

\* One of the stores moves.
InIntegrations == Next          /\ UNCHANGED <<d1Vars, lkVars, mgVars, flVars, rlVars, rtVars>>
InD1           == D1!Next1      /\ UNCHANGED <<vars, lkVars, mgVars, flVars, rlVars, rtVars>>
InLocks        == Locks!Next    /\ UNCHANGED <<vars, d1Vars, mgVars, flVars, rlVars, rtVars>>
InSchema       == Schema!Next   /\ UNCHANGED <<vars, d1Vars, lkVars, flVars, rlVars, rtVars>>
InMessages     == Messages!Next /\ UNCHANGED <<vars, d1Vars, lkVars, mgVars, rlVars, rtVars>>
InLimits       == Limits!Next   /\ UNCHANGED <<vars, d1Vars, lkVars, mgVars, flVars, rtVars>>
InRegistry     == Registry!Next /\ UNCHANGED <<vars, d1Vars, lkVars, mgVars, flVars, rlVars>>

StoresNext ==
    \/ InIntegrations \/ InD1 \/ InLocks \/ InSchema \/ InMessages \/ InLimits \/ InRegistry

StoresSpec == StoresInit /\ [][StoresNext]_storesVars

-----------------------------------------------------------------------------
(* The properties of the stores, under their own names *)

\* The tables and requests of the stores hold values of their types, those of the
\* integrations on SQLite apart, of which TypeOK speaks.
StoresTypeOK ==
    /\ D1!TypeOK1
    /\ Locks!TypeOK
    /\ Schema!TypeOK
    /\ Messages!TypeOK
    /\ Limits!TypeOK
    /\ Registry!TypeOK

\* integrations-d1.ts: no interleaving of connects, reverifications and disconnects
\* separates a status from its secret, or loses what was connected last.
ConnectedHasSecret      == D1!ConnectedHasSecret
LatestCredentialsKeptD1 == D1!LatestCredentialsKept

\* d1-locks.ts: a running lock is taken only by a request that overlapped its grant.
StealOnlyByOverlap == Locks!StealOnlyByOverlap

\* sqlite-bootstrap-migrations.ts, d1-migrate-ops.ts: the records and the schema agree.
RecordedIffInForce == Schema!RecordedIffInForce

\* flash.ts, flash-d1.ts: a message that has been shown is gone.
GoneOnceShown == Messages!GoneOnceShown

\* rate-limit-repository-factory.ts, d1-rate-limit-part.ts: limits hold; replay.ts: an
\* OAuth state is used once.
LimitHolds    == Limits!LimitHolds
StateUsedOnce == Limits!StateUsedOnce

\* cms-route-registry-helpers.ts and the D1 modules: the newest revision is shown; a
\* taken path is refused before anything is written; a start fails on taken paths only.
NewestIsShown     == Registry!NewestIsShown
RefusedLate       == Registry!RefusedLate
StartFailsOnTaken == Registry!StartFailsOnTaken
=============================================================================

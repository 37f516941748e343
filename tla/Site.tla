-------------------------------- MODULE Site ---------------------------------
(***************************************************************************)
(* The content store and the parts of a site that share no table, file or  *)
(* request with it: access control, media, imports and backups.  A step of *)
(* the whole is a step of one of them and leaves the others alone.         *)
(***************************************************************************)
EXTENDS Content, Sequences

CONSTANTS
    AcUsers, AcAdmins, AcRoles, AcPolicies, AcConditions, AcAlways, AcActions, AcOwners,
    AcTeams, AcMissing, AcRequests, AcMaxChange,
    MdIds, MdNoId, MdRequests, MdMaxRebind,
    ImLast, ImNames, ImWpName, ImMaxRun,
    BkEntries, BkInclude, BkDatabase, BkMaxEdit

VARIABLES
    acAccount, acRoles, acRolePolicies, acUserRoles, acDirect, acTeam, acReq, acChanges, acSeen,
    mdBackend, mdBucket, mdObjects, mdUsed, mdRows, mdReq, mdRebinds,
    imKind, imEdition, imFiles, imState, imRows, imRun, imRuns, imRemoved,
    bkProject, bkSnap, bkExported, bkOp, bkEdits

Access == INSTANCE Access WITH
        Users <- AcUsers, Admins <- AcAdmins, Roles <- AcRoles, Policies <- AcPolicies,
        Conditions <- AcConditions, Always <- AcAlways, Actions <- AcActions,
        Owners <- AcOwners, Teams <- AcTeams, Missing <- AcMissing,
        Requests <- AcRequests, MaxChange <- AcMaxChange,
        account <- acAccount, roles <- acRoles, rolePolicies <- acRolePolicies,
        userRoles <- acUserRoles, direct <- acDirect, team <- acTeam, req <- acReq,
        changes <- acChanges, seen <- acSeen

Media == INSTANCE Media WITH
        Ids <- MdIds, NoId <- MdNoId, Requests <- MdRequests, MaxRebind <- MdMaxRebind,
        backend <- mdBackend, bucket <- mdBucket, objects <- mdObjects, used <- mdUsed,
        rows <- mdRows, req <- mdReq, rebinds <- mdRebinds

Imports == INSTANCE Imports WITH
        Last <- ImLast, Names <- ImNames, WpName <- ImWpName, MaxRun <- ImMaxRun,
        kind <- imKind, edition <- imEdition, files <- imFiles, state <- imState,
        rows <- imRows, run <- imRun, runs <- imRuns, removed <- imRemoved

Backups == INSTANCE Backups WITH
        Entries <- BkEntries, Include <- BkInclude, Database <- BkDatabase,
        MaxEdit <- BkMaxEdit,
        project <- bkProject, snap <- bkSnap, exported <- bkExported, op <- bkOp,
        edits <- bkEdits

-----------------------------------------------------------------------------
(* What a site gives each part *)

ASSUME AccessAssumption == AcMaxChange \in Nat

\* No object is named by the absence of a name.
ASSUME MediaAssumption == MdNoId \notin MdIds /\ MdMaxRebind \in Nat

\* Every attachment has a name: on WordPress its own, on Wix that of its position.
ASSUME ImportsAssumption ==
    /\ ImLast \in Nat /\ ImMaxRun \in Nat
    /\ ImWpName \in [1..ImLast -> ImNames]
    /\ 1..ImLast \subseteq ImNames

\* The list names entries of the project.
ASSUME BackupsAssumption ==
    BkInclude \in Seq(BkEntries) /\ BkDatabase \in BkEntries /\ BkMaxEdit \in Nat

-----------------------------------------------------------------------------
acVars == <<acAccount, acRoles, acRolePolicies, acUserRoles, acDirect, acTeam, acReq,
            acChanges, acSeen>>
mdVars == <<mdBackend, mdBucket, mdObjects, mdUsed, mdRows, mdReq, mdRebinds>>
imVars == <<imKind, imEdition, imFiles, imState, imRows, imRun, imRuns, imRemoved>>
bkVars == <<bkProject, bkSnap, bkExported, bkOp, bkEdits>>

siteVars == <<vars, acVars, mdVars, imVars, bkVars>>

SiteInit == Init /\ Access!Init /\ Media!Init /\ Imports!Init /\ Backups!Init

\* One of the parts moves.
InContent == Next         /\ UNCHANGED <<acVars, mdVars, imVars, bkVars>>
InAccess  == Access!Next  /\ UNCHANGED <<vars, mdVars, imVars, bkVars>>
InMedia   == Media!Next   /\ UNCHANGED <<vars, acVars, imVars, bkVars>>
InImports == Imports!Next /\ UNCHANGED <<vars, acVars, mdVars, bkVars>>
InBackups == Backups!Next /\ UNCHANGED <<vars, acVars, mdVars, imVars>>

SiteNext == InContent \/ InAccess \/ InMedia \/ InImports \/ InBackups

SiteSpec == SiteInit /\ [][SiteNext]_siteVars

-----------------------------------------------------------------------------
(* The properties of the parts, under their own names *)

\* The tables, directories, requests and runs of the parts hold values of their types,
\* those of the content store apart, of which TypeOK speaks.
SiteTypeOK == Access!TypeOK /\ Media!TypeOK /\ Imports!TypeOK /\ Backups!TypeOK

\* access/evaluator.ts over d1-access-store.ts: a request may do what some policy allowed
\* it while it loaded, and is refused only what none did.
AllowedWasGranted == Access!AllowedWasGranted
RefusedWithReason == Access!RefusedWithReason

\* runtime-actions-media.ts: a media row that is listed names objects that are there.
LiveRowHasFile == Media!LiveRowHasFile

\* import/wordpress.ts, import/wix.ts: a resumed import skips only what it has.
CompletedIsWhole == Imports!CompletedIsWhole

\* sync/git.ts: a restore that ends has made the project what the snapshot holds.
RestoredIsSnapshot == Backups!RestoredIsSnapshot
=============================================================================

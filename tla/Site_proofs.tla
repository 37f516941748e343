----------------------------- MODULE Site_proofs ------------------------------
(***************************************************************************)
(* What is proved of the parts that Site puts beside the content store,    *)
(* for any users, policies, objects, attachments and entries and every     *)
(* bound, whatever the other parts do meanwhile.  A section for each part  *)
(* has its invariant; the last section puts them together.                 *)
(***************************************************************************)
EXTENDS Site, TLAPS

-----------------------------------------------------------------------------
(* Access control and media *)

\* The proofs of the two, about the parts of this site.
AccessProofs == INSTANCE Access_proofs WITH
        Users <- AcUsers, Admins <- AcAdmins, Roles <- AcRoles, Policies <- AcPolicies,
        Conditions <- AcConditions, Always <- AcAlways, Actions <- AcActions,
        Owners <- AcOwners, Teams <- AcTeams, Missing <- AcMissing,
        Requests <- AcRequests, MaxChange <- AcMaxChange,
        account <- acAccount, roles <- acRoles, rolePolicies <- acRolePolicies,
        userRoles <- acUserRoles, direct <- acDirect, team <- acTeam, req <- acReq,
        changes <- acChanges, seen <- acSeen

MediaProofs == INSTANCE Media_proofs WITH
        Ids <- MdIds, NoId <- MdNoId, Requests <- MdRequests, MaxRebind <- MdMaxRebind,
        backend <- mdBackend, bucket <- mdBucket, objects <- mdObjects, used <- mdUsed,
        rows <- mdRows, req <- mdReq, rebinds <- mdRebinds

\* What they speak of is what the parts of the site are.
LEMMA AccessSame ==
    /\ Access!Init <=> AccessProofs!Init
    /\ Access!Next <=> AccessProofs!Next
    /\ Access!TypeOK <=> AccessProofs!TypeOK
    /\ Access!AllowedWasGranted <=> AccessProofs!AllowedWasGranted
    /\ Access!RefusedWithReason <=> AccessProofs!RefusedWithReason
<1>1. Access!Init <=> AccessProofs!Init
  BY DEF Access!Init, AccessProofs!Init, Access!Idle, AccessProofs!Idle
<1>2. Access!Next <=> AccessProofs!Next
  BY DEF Access!Next, AccessProofs!Next, Access!Manage, AccessProofs!Manage, Access!Load,
         AccessProofs!Load, Access!CreateRole, AccessProofs!CreateRole, Access!DeleteRole,
         AccessProofs!DeleteRole, Access!AddRolePolicy, AccessProofs!AddRolePolicy,
         Access!RemoveRolePolicy, AccessProofs!RemoveRolePolicy, Access!AssignRole,
         AccessProofs!AssignRole, Access!RevokeRole, AccessProofs!RevokeRole,
         Access!AddDirectGrant, AccessProofs!AddDirectGrant, Access!RemoveDirectGrant,
         AccessProofs!RemoveDirectGrant, Access!SetTeam, AccessProofs!SetTeam,
         Access!Erase, AccessProofs!Erase, Access!SetActive, AccessProofs!SetActive,
         Access!Begin, AccessProofs!Begin, Access!ReadAccount, AccessProofs!ReadAccount,
         Access!ReadRolePolicies, AccessProofs!ReadRolePolicies, Access!ReadDirect,
         AccessProofs!ReadDirect, Access!ReadAttributes, AccessProofs!ReadAttributes,
         Access!End, AccessProofs!End, Access!Change, AccessProofs!Change, Access!Unused,
         AccessProofs!Unused, Access!Idle, AccessProofs!Idle, Access!Standings,
         AccessProofs!Standings, Access!tables, AccessProofs!tables, Access!Parts,
         AccessProofs!Parts, Access!Ended, AccessProofs!Ended, Access!Witness,
         AccessProofs!Witness
<1>3. Access!TypeOK <=> AccessProofs!TypeOK
  BY DEF Access!TypeOK, AccessProofs!TypeOK, Access!Request, AccessProofs!Request,
         Access!Standing, AccessProofs!Standing, Access!Parts, AccessProofs!Parts
<1>4. Access!AllowedWasGranted <=> AccessProofs!AllowedWasGranted
  BY DEF Access!AllowedWasGranted, AccessProofs!AllowedWasGranted, Access!Can,
         AccessProofs!Can, Access!Sometime, AccessProofs!Sometime, Access!Throughout,
         AccessProofs!Throughout, Access!Decides, AccessProofs!Decides, Access!Binding,
         AccessProofs!Binding, Access!InForce, AccessProofs!InForce, Access!Matches,
         AccessProofs!Matches, Access!Satisfied, AccessProofs!Satisfied
<1>5. Access!RefusedWithReason <=> AccessProofs!RefusedWithReason
  BY DEF Access!RefusedWithReason, AccessProofs!RefusedWithReason, Access!Can,
         AccessProofs!Can, Access!Sometime, AccessProofs!Sometime, Access!Throughout,
         AccessProofs!Throughout, Access!Decides, AccessProofs!Decides, Access!Binding,
         AccessProofs!Binding, Access!InForce, AccessProofs!InForce, Access!Matches,
         AccessProofs!Matches, Access!Satisfied, AccessProofs!Satisfied
<1> QED
  BY <1>1, <1>2, <1>3, <1>4, <1>5

LEMMA MediaSame ==
    /\ Media!Init <=> MediaProofs!Init
    /\ Media!Next <=> MediaProofs!Next
    /\ Media!TypeOK <=> MediaProofs!TypeOK
    /\ Media!LiveRowHasFile <=> MediaProofs!LiveRowHasFile
<1>1. Media!Init <=> MediaProofs!Init
  BY DEF Media!Init, MediaProofs!Init, Media!NoRow, MediaProofs!NoRow, Media!Idle,
         MediaProofs!Idle
<1>2. Media!Next <=> MediaProofs!Next
  BY DEF Media!Next, MediaProofs!Next, Media!Upload, MediaProofs!Upload,
         Media!UploadKilled, MediaProofs!UploadKilled, Media!Delete, MediaProofs!Delete,
         Media!DeleteKilled, MediaProofs!DeleteKilled, Media!Store, MediaProofs!Store,
         Media!StoreVariant, MediaProofs!StoreVariant, Media!Seek, MediaProofs!Seek,
         Media!NoVariant, MediaProofs!NoVariant, Media!Insert, MediaProofs!Insert,
         Media!Mark, MediaProofs!Mark, Media!FindPaths, MediaProofs!FindPaths,
         Media!Remove, MediaProofs!Remove, Media!Die, MediaProofs!Die, Media!Rebind,
         MediaProofs!Rebind, Media!NoRow, MediaProofs!NoRow, Media!Here, MediaProofs!Here,
         Media!Idle, MediaProofs!Idle, Media!Row, MediaProofs!Row
<1>3. Media!TypeOK <=> MediaProofs!TypeOK
  BY DEF Media!TypeOK, MediaProofs!TypeOK, Media!Places, MediaProofs!Places, Media!Asset,
         MediaProofs!Asset, Media!Request, MediaProofs!Request
<1>4. Media!LiveRowHasFile <=> MediaProofs!LiveRowHasFile
  BY DEF Media!LiveRowHasFile, MediaProofs!LiveRowHasFile
<1> QED
  BY <1>1, <1>2, <1>3, <1>4

LEMMA AccessPart ==
    /\ Access!Init => AccessProofs!AccessInv
    /\ AccessProofs!AccessInv /\ [Access!Next]_acVars => AccessProofs!AccessInv'
    /\ AccessProofs!AccessInv =>
         Access!TypeOK /\ Access!AllowedWasGranted /\ Access!RefusedWithReason
<1>1. AccessProofs!Constants
  BY AccessAssumption DEF AccessProofs!Constants
<1>2. [Access!Next]_acVars => [AccessProofs!Next]_(AccessProofs!vars)
  BY AccessSame DEF acVars, AccessProofs!vars, AccessProofs!tables
<1>3. AccessProofs!AccessInv /\ [Access!Next]_acVars => AccessProofs!AccessInv'
  BY <1>1, <1>2, AccessProofs!AccessStep
<1>4. Access!Init => AccessProofs!AccessInv
  BY <1>1, AccessSame, AccessProofs!AccessInit
<1>5. AccessProofs!AccessInv =>
         Access!TypeOK /\ Access!AllowedWasGranted /\ Access!RefusedWithReason
  BY AccessSame, AccessProofs!InvGrantedOnly, AccessProofs!InvRefused DEF AccessProofs!AccessInv
<1> QED
  BY <1>3, <1>4, <1>5

LEMMA MediaPart ==
    /\ Media!Init => MediaProofs!MediaInv
    /\ MediaProofs!MediaInv /\ [Media!Next]_mdVars => MediaProofs!MediaInv'
    /\ MediaProofs!MediaInv => Media!TypeOK /\ Media!LiveRowHasFile
<1>1. MediaProofs!Constants
  BY MediaAssumption DEF MediaProofs!Constants
<1>2. [Media!Next]_mdVars => [MediaProofs!Next]_(MediaProofs!vars)
  BY MediaSame DEF mdVars, MediaProofs!vars
<1>3. MediaProofs!MediaInv /\ [Media!Next]_mdVars => MediaProofs!MediaInv'
  BY <1>1, <1>2, MediaProofs!MediaStep
<1>4. Media!Init => MediaProofs!MediaInv
  BY <1>1, MediaSame, MediaProofs!MediaInit
<1>5. MediaProofs!MediaInv => Media!TypeOK /\ Media!LiveRowHasFile
  BY MediaSame DEF MediaProofs!MediaInv, MediaProofs!LiveRowHasFile
<1> QED
  BY <1>3, <1>4, <1>5

-----------------------------------------------------------------------------
(* Backup and restore: for any list of entries, one with repeated entries  *)
(* included.  Before the turn of an entry the project has nothing or       *)
(* already the snapshot's, after it the snapshot's.                        *)

BkPositions == 1..Len(BkInclude)

\* An entry that is not there is the same nothing everywhere.
OneNothing ==
    \A e \in BkEntries : /\ bkProject[e].how = "none" => bkProject[e] = Backups!Nothing
                         /\ bkSnap[e].how = "none" => bkSnap[e] = Backups!Nothing

Removing ==
    bkOp.at = "remove" =>
      /\ bkOp.dir = "import"
      /\ \A i \in BkPositions : i < bkOp.next => bkProject[BkInclude[i]] = Backups!Nothing

\* No command is at rest, and a copy has its entry.  Of an import that copies, only the
\* entry it is at may hold something other than nothing or what the snapshot holds.
Copying ==
    /\ bkOp.at = "idle" => bkOp.dir = "none"
    /\ bkOp.at = "copy" => Backups!More
    /\ bkOp.dir = "import" =>
        /\ ~bkOp.dirty
        /\ bkOp.at \in {"enter", "copy"} => \A i \in BkPositions :
             \/ bkProject[BkInclude[i]] = bkSnap[BkInclude[i]]
             \/ bkOp.at = "copy" /\ BkInclude[i] = Backups!Entry
             \/ i >= bkOp.next /\ bkProject[BkInclude[i]] = Backups!Nothing

BackupsInv == Backups!TypeOK /\ OneNothing /\ Removing /\ Copying

-----------------------------------------------------------------------------
\* The contents that the steps write.
LEMMA BackupContents ==
    ASSUME BkMaxEdit \in Nat
    PROVE  /\ Backups!Nothing \in Backups!Held /\ Backups!Partial \in Backups!Held
           /\ [how |-> "whole", v |-> 0] \in Backups!Held
  BY DEF Backups!Nothing, Backups!Partial, Backups!Held

LEMMA IncludedTyped ==
    ASSUME BackupsAssumption
    PROVE  Len(BkInclude) \in Nat /\ \A i \in BkPositions : BkInclude[i] \in BkEntries
  BY DEF BackupsAssumption, BkPositions

LEMMA CommandIdle ==
    ASSUME BackupsAssumption
    PROVE  /\ Backups!Idle \in Backups!Command
           /\ Backups!Idle.dir = "none" /\ Backups!Idle.at = "idle" 
           /\ Backups!Idle.next = 1 /\ ~Backups!Idle.dirty
  BY IncludedTyped DEF Backups!Idle, Backups!Command

\* The command goes on: to its next entry, into one, out of one.
LEMMA CommandTyped ==
    ASSUME BackupsAssumption, bkOp \in Backups!Command, bkOp.next \in BkPositions
    PROVE  /\ [bkOp EXCEPT !.next = @ + 1] \in Backups!Command
           /\ [bkOp EXCEPT !.at = "enter", !.next = @ + 1] \in Backups!Command
           /\ [bkOp EXCEPT !.at = "copy", !.dirty = FALSE] \in Backups!Command
           /\ \A d \in BOOLEAN : [bkOp EXCEPT !.dirty = d] \in Backups!Command
<1>1. bkOp.next + 1 \in 1..(Len(BkInclude) + 1)
  BY IncludedTyped DEF BkPositions
<1> QED
  BY <1>1 DEF Backups!Command

LEMMA BackupsInit == ASSUME BackupsAssumption PROVE Backups!Init => BackupsInv
<1> SUFFICES ASSUME Backups!Init PROVE BackupsInv
  OBVIOUS
<1>1. Backups!TypeOK
  <2>1. bkOp \in Backups!Command
    BY CommandIdle DEF Backups!Init
  <2>2. bkProject \in [BkEntries -> Backups!Held] /\ bkSnap \in [BkEntries -> Backups!Held]
    BY BackupContents DEF BackupsAssumption, Backups!Init
  <2>3. bkEdits \in 0..BkMaxEdit
    BY DEF BackupsAssumption, Backups!Init
  <2>4. bkExported \in BOOLEAN
    BY DEF Backups!Init
  <2> QED
    BY <2>1, <2>2, <2>3, <2>4 DEF Backups!TypeOK
<1>2. OneNothing
  BY DEF Backups!Init, OneNothing, Backups!Nothing
<1> QED
  BY <1>1, <1>2 DEF Backups!Init, BackupsInv, Removing, Copying, Backups!Idle

\* A command begins, gives up or ends.
LEMMA BackupsTurn ==
    ASSUME BackupsAssumption, BackupsInv,
           \/ Backups!BeginExport \/ Backups!BeginImport \/ Backups!Refuse
           \/ Backups!CopyFails \/ Backups!Kill \/ Backups!EndExport \/ Backups!EndImport
    PROVE  BackupsInv'
<1>1. Backups!TypeOK /\ OneNothing
  BY DEF BackupsInv
<1>2. /\ Backups!Idle.dir = "none" /\ Backups!Idle.at = "idle"
      /\ Backups!Idle.next = 1 /\ ~Backups!Idle.dirty
  BY CommandIdle
<1>3. /\ Backups!Idle \in Backups!Command
      /\ \A d, a : d \in {"export", "import"} /\ a \in {"enter", "remove"} =>
             [Backups!Idle EXCEPT !.dir = d, !.at = a] \in Backups!Command
  BY CommandIdle DEF Backups!Command
<1>4. CASE Backups!BeginExport
  <2>1. Backups!TypeOK' /\ OneNothing'
    <3>1. bkOp' \in Backups!Command
      BY <1>3, <1>4 DEF Backups!BeginExport
    <3>2. /\ bkSnap' = [e \in BkEntries |-> Backups!Nothing]
          /\ bkSnap' \in [BkEntries -> Backups!Held]
      BY <1>4, BackupContents DEF Backups!BeginExport, BackupsAssumption
    <3> QED
      BY <1>1, <1>4, <3>1, <3>2 DEF Backups!BeginExport, Backups!TypeOK, OneNothing
  <2>2. bkOp'.dir = "export" /\ bkOp'.at = "enter"
    BY <1>4 DEF Backups!BeginExport, Backups!Idle
  <2> QED
    BY <2>1, <2>2 DEF BackupsInv, Removing, Copying
<1>5. CASE Backups!BeginImport
  <2>1. Backups!TypeOK' /\ OneNothing'
    BY <1>1, <1>3, <1>5 DEF Backups!BeginImport, Backups!TypeOK, OneNothing
  <2>2. bkOp'.dir = "import" /\ bkOp'.at = "remove" /\ bkOp'.next = 1 /\ ~bkOp'.dirty
    BY <1>5 DEF Backups!BeginImport, Backups!Idle
  <2> QED
    BY <2>1, <2>2 DEF BackupsInv, Removing, Copying, BkPositions
<1>6. CASE \/ Backups!Refuse \/ Backups!CopyFails \/ Backups!Kill
           \/ Backups!EndExport \/ Backups!EndImport
  <2>1. /\ bkOp' = Backups!Idle /\ bkProject' = bkProject /\ bkSnap' = bkSnap
        /\ bkEdits' = bkEdits /\ bkExported' \in BOOLEAN
    BY <1>1, <1>6
       DEF Backups!Refuse, Backups!CopyFails, Backups!Kill, Backups!EndExport,
           Backups!EndImport, Backups!TypeOK
  <2> QED
    BY <1>1, <1>2, <1>3, <2>1 DEF BackupsInv, Backups!TypeOK, OneNothing, Removing, Copying
<1> QED
  BY <1>4, <1>5, <1>6

\* A step that removes.
LEMMA BackupsRemove ==
    ASSUME BackupsAssumption, BackupsInv, Backups!Remove \/ Backups!Removed
    PROVE  BackupsInv'
<1>0. /\ Backups!TypeOK /\ OneNothing
      /\ bkOp.dir = "import" /\ bkOp.next \in 1..(Len(BkInclude) + 1)
  BY
     DEF BackupsInv, Backups!Remove, Backups!Removed, Backups!TypeOK, Removing,
         Backups!Command
<1>1. CASE Backups!Remove
  <2>1. bkOp.next \in BkPositions /\ Backups!Entry \in BkEntries
    BY <1>0, <1>1, IncludedTyped
       DEF Backups!Remove, Backups!More, Backups!Entry, BkPositions
  <2>2. Backups!TypeOK' /\ OneNothing'
    <3>1. bkOp' \in Backups!Command
      BY <1>0, <1>1, <2>1, CommandTyped DEF Backups!Remove, Backups!TypeOK, Backups!Command
    <3>2. /\ bkProject' = [bkProject EXCEPT ![Backups!Entry] = Backups!Nothing]
          /\ bkSnap' = bkSnap /\ bkExported' = bkExported /\ bkEdits' = bkEdits
      BY <1>1 DEF Backups!Remove
    <3> QED
      BY <1>0, <2>1, <3>1, <3>2, BackupContents
         DEF BackupsAssumption, Backups!TypeOK, OneNothing
  <2>3. Removing'
    BY <1>0, <1>1, <2>1, IncludedTyped
       DEF BackupsInv, Backups!Remove, Removing, Backups!TypeOK, Backups!Entry, BkPositions
  <2>4. Copying'
    BY <1>0, <1>1 DEF BackupsInv, Backups!Remove, Copying, Backups!TypeOK
  <2> QED
    BY <2>2, <2>3, <2>4 DEF BackupsInv
<1>2. CASE Backups!Removed
  <2>1. \A i \in BkPositions : bkProject[BkInclude[i]] = Backups!Nothing
    BY <1>0, <1>2, IncludedTyped
       DEF BackupsInv, Backups!Removed, Removing, Backups!More, BkPositions
  <2> QED
    <3>1. /\ bkOp' = [bkOp EXCEPT !.at = "enter", !.next = 1]
          /\ UNCHANGED <<bkProject, bkSnap, bkExported, bkEdits>>
      BY <1>2 DEF Backups!Removed
    <3>2. /\ bkOp' \in Backups!Command /\ bkOp'.at = "enter" /\ bkOp'.dir = "import"
          /\ bkOp'.next = 1 /\ ~bkOp'.dirty
      <4>1. bkOp \in Backups!Command /\ ~bkOp.dirty /\ 1 \in 1..(Len(BkInclude) + 1)
        BY <1>0, IncludedTyped DEF BackupsInv, Copying, Backups!TypeOK
      <4>2. \A n \in 1..(Len(BkInclude) + 1) :
              [bkOp EXCEPT !.at = "enter", !.next = n] \in Backups!Command
        BY <4>1 DEF Backups!Command
      <4>3. bkOp'.at = "enter" /\ bkOp'.dir = "import" /\ bkOp'.next = 1 /\ ~bkOp'.dirty
        BY <1>0, <3>1, <4>1 DEF Backups!Command
      <4> QED
        BY <3>1, <4>1, <4>2, <4>3
    <3>3. Backups!TypeOK' /\ OneNothing' /\ Removing'
      BY <1>0, <3>1, <3>2 DEF Backups!TypeOK, OneNothing, Removing
    <3>4. Copying'
      BY <1>0, <2>1, <3>1, <3>2 DEF BackupsInv, Copying, BkPositions
    <3> QED
      BY <3>3, <3>4 DEF BackupsInv
<1> QED
  BY <1>1, <1>2

\* A step of the copy.
LEMMA BackupsCopy ==
    ASSUME BackupsAssumption, BackupsInv,
           Backups!PassOver \/ Backups!Enter \/ Backups!Copied
    PROVE  BackupsInv'
<1>0. /\ Backups!TypeOK /\ OneNothing /\ bkOp.dir \in {"none", "export", "import"}
      /\ bkOp.next \in BkPositions /\ Backups!Entry \in BkEntries
  <2>1. Backups!TypeOK /\ OneNothing /\ Backups!More
    BY DEF BackupsInv, Backups!PassOver, Backups!Enter, Backups!Copied, Copying
  <2>2. bkOp.dir \in {"none", "export", "import"} /\ bkOp.next \in 1..(Len(BkInclude) + 1)
    BY <2>1 DEF Backups!TypeOK, Backups!Command
  <2> QED
    BY <2>1, <2>2, IncludedTyped DEF Backups!More, Backups!Entry, BkPositions
<1>1. CASE Backups!PassOver
  <2>1. bkOp.dir = "import" => bkSnap[Backups!Entry] = Backups!Nothing
    BY <1>0, <1>1 DEF Backups!PassOver, Backups!Source, OneNothing
  <2>2. Copying'
    BY <1>0, <1>1, <2>1, IncludedTyped
       DEF BackupsInv, Backups!PassOver, Copying, Backups!TypeOK, Backups!Entry, BkPositions
  <2> QED
    <3>1. bkOp' \in Backups!Command /\ bkOp'.at = "enter"
      BY <1>0, <1>1, CommandTyped DEF Backups!PassOver, Backups!TypeOK, Backups!Command
    <3> QED
      BY <1>0, <1>1, <2>2, <3>1
         DEF BackupsInv, Backups!PassOver, Backups!TypeOK, OneNothing, Removing
<1>2. CASE Backups!Enter
  <2>1. Backups!TypeOK' /\ OneNothing'
    <3>1. bkOp' \in Backups!Command /\ Backups!Partial.how # "none"
      BY <1>0, <1>2, CommandTyped
         DEF Backups!Enter, Backups!TypeOK, Backups!Command, Backups!Partial
    <3> QED
      BY <1>0, <1>2, <3>1, BackupContents
         DEF BackupsAssumption, Backups!Enter, Backups!Put, Backups!TypeOK, OneNothing
  <2>2. Copying'
    BY <1>0, <1>2, IncludedTyped
       DEF BackupsInv, Backups!Enter, Backups!Put, Copying, Backups!TypeOK, Backups!Entry,
           Backups!More, BkPositions
  <2> QED
    BY <1>2, <2>1, <2>2 DEF BackupsInv, Backups!Enter, Removing
<1>3. CASE Backups!Copied
  <2>1. /\ Backups!Source[Backups!Entry] \in Backups!Held
        /\ [Backups!Source[Backups!Entry] EXCEPT !.how = "mixed"] \in Backups!Held
        /\ Backups!Source[Backups!Entry].how = "none" =>
             Backups!Source[Backups!Entry] = Backups!Nothing
    BY <1>0 DEF Backups!Source, Backups!TypeOK, Backups!Held, OneNothing
  <2>2. Backups!TypeOK' /\ OneNothing'
    <3>1. bkOp' \in Backups!Command
      BY <1>0, <1>3, CommandTyped DEF Backups!Copied, Backups!TypeOK, Backups!Command
    <3>2. PICK c \in Backups!Held : (c.how = "none" => c = Backups!Nothing) /\ Backups!Put(c)
      <4>1. [Backups!Source[Backups!Entry] EXCEPT !.how = "mixed"].how # "none"
        BY <2>1 DEF Backups!Held
      <4> QED
        BY <1>3, <2>1, <4>1 DEF Backups!Copied
    <3> QED
      BY <1>0, <1>3, <3>1, <3>2 DEF Backups!Copied, Backups!Put, Backups!TypeOK, OneNothing
  <2>3. Copying'
    <3>1. CASE bkOp.dir = "import"
      <4>1. /\ bkProject' = [bkProject EXCEPT ![Backups!Entry] = bkSnap[Backups!Entry]]
            /\ bkSnap' = bkSnap
            /\ bkOp' = [bkOp EXCEPT !.at = "enter", !.next = @ + 1]
            /\ ~bkOp.dirty /\ bkOp.at = "copy"
        BY <1>3, <3>1 DEF BackupsInv, Backups!Copied, Backups!Put, Backups!Source, Copying
      <4> QED
        BY <1>0, <3>1, <4>1, IncludedTyped
           DEF BackupsInv, Copying, Backups!TypeOK, Backups!Entry, BkPositions
    <3>2. CASE bkOp.dir # "import"
      BY <1>0, <1>3, <3>2 DEF Backups!Copied, Copying, Backups!TypeOK
    <3> QED
      BY <3>1, <3>2
  <2> QED
    BY <1>0, <1>3, <2>2, <2>3 DEF BackupsInv, Backups!Copied, Removing, Backups!TypeOK
<1> QED
  BY <1>1, <1>2, <1>3

\* The site is edited only while nothing is restored.
LEMMA BackupsEdit ==
    ASSUME BackupsAssumption, BackupsInv, NEW e \in BkEntries,
           Backups!Edit(e) \/ Backups!Drop(e) \/ Backups!Corrupt
    PROVE  BackupsInv'
<1>0. Backups!TypeOK /\ OneNothing
  BY DEF BackupsInv
<1>1. Backups!TypeOK' /\ OneNothing'
  <2>1. bkEdits < BkMaxEdit =>
          /\ [how |-> "whole", v |-> bkEdits + 1] \in Backups!Held
          /\ bkEdits + 1 \in 0..BkMaxEdit
    BY <1>0 DEF Backups!TypeOK, Backups!Held, BackupsAssumption
  <2>2. bkOp' \in Backups!Command
    <3>1. bkOp' = bkOp \/ \E d \in BOOLEAN : bkOp' = [bkOp EXCEPT !.dirty = d]
      BY <1>0 DEF Backups!Edit, Backups!Drop, Backups!Corrupt, Backups!TypeOK
    <3> QED
      BY <1>0, <3>1 DEF Backups!TypeOK, Backups!Command
  <2>3. \/ bkProject' = [bkProject EXCEPT ![e] = [how |-> "whole", v |-> bkEdits + 1]]
        \/ bkProject' = [bkProject EXCEPT ![e] = Backups!Nothing]
        \/ bkProject' = [bkProject EXCEPT ![BkDatabase] =
                            [bkProject[BkDatabase] EXCEPT !.how = "corrupt"]]
    BY <1>0
       DEF Backups!Edit, Backups!Drop, Backups!Corrupt, Backups!TypeOK, BackupsAssumption
  <2>4. /\ [bkProject[BkDatabase] EXCEPT !.how = "corrupt"] \in Backups!Held
        /\ [bkProject[BkDatabase] EXCEPT !.how = "corrupt"].how # "none"
    BY <1>0 DEF Backups!TypeOK, Backups!Held, BackupsAssumption
  <2>5. /\ bkEdits < BkMaxEdit /\ bkEdits' = bkEdits + 1
        /\ bkSnap' = bkSnap /\ bkExported' = bkExported
    BY DEF Backups!Edit, Backups!Drop, Backups!Corrupt
  <2>6. \E x \in BkEntries, c \in Backups!Held :
           /\ c.how = "none" => c = Backups!Nothing
           /\ bkProject' = [bkProject EXCEPT ![x] = c]
    <3>1. /\ [how |-> "whole", v |-> bkEdits + 1].how # "none"
          /\ Backups!Nothing \in Backups!Held
      BY BackupContents DEF BackupsAssumption
    <3> QED
      BY <2>1, <2>3, <2>4, <2>5, <3>1 DEF BackupsAssumption
  <2> QED
    BY <1>0, <2>1, <2>2, <2>5, <2>6 DEF Backups!TypeOK, OneNothing
<1>2. Removing' /\ Copying'
  <2>1. /\ bkOp.dir # "import" /\ bkOp'.dir = bkOp.dir
        /\ bkOp'.at = bkOp.at /\ bkOp'.next = bkOp.next
    <3>1. CASE Backups!Corrupt
      BY <1>0, <3>1 DEF BackupsInv, Copying, Backups!Corrupt
    <3>2. CASE Backups!Edit(e) \/ Backups!Drop(e)
      BY <1>0, <3>2 DEF Backups!Edit, Backups!Drop, Backups!TypeOK, Backups!Command
    <3> QED
      BY <3>1, <3>2
  <2> QED
    BY <2>1 DEF BackupsInv, Removing, Copying, Backups!More
<1> QED
  BY <1>1, <1>2 DEF BackupsInv

LEMMA BackupsStep ==
    ASSUME BackupsAssumption
    PROVE  BackupsInv /\ [Backups!Next]_bkVars => BackupsInv'
<1> SUFFICES ASSUME BackupsInv, [Backups!Next]_bkVars PROVE BackupsInv'
  OBVIOUS
<1>1. CASE UNCHANGED bkVars
  BY <1>1
     DEF bkVars, BackupsInv, Backups!TypeOK, OneNothing, Removing, Copying, Backups!More,
         Backups!Entry
<1>2. CASE Backups!Corrupt
  BY <1>2, BackupsEdit DEF BackupsAssumption
<1> QED
  BY <1>1, <1>2, BackupsTurn, BackupsRemove, BackupsCopy, BackupsEdit DEF Backups!Next


\* An import that ends has passed all entries.
LEMMA BackupsWhole ==
    ASSUME BackupsAssumption, BackupsInv, Backups!EndImport
    PROVE  \A e \in Backups!Included : bkProject[e] = bkSnap[e]
<1> SUFFICES ASSUME NEW i \in BkPositions
             PROVE  bkProject[BkInclude[i]] = bkSnap[BkInclude[i]]
  BY DEF Backups!Included, BkPositions
<1>1. ~(i >= bkOp.next) /\ bkOp.at = "enter" /\ bkOp.dir = "import"
  BY IncludedTyped DEF BackupsInv, Backups!EndImport, Backups!TypeOK, Backups!Command,
                       Backups!More, BkPositions
<1> QED
  BY <1>1 DEF BackupsInv, Copying

-----------------------------------------------------------------------------
(* Imports: what the state file and the run under way call completed is    *)
(* whole or exempt, and before its turn only what was found in the state   *)
(* file is completed, so that no download touches a completed file.        *)

Exempt(a) == \/ Imports!Shared(Imports!NameOf(a))
             \/ Imports!NameOf(a) \in imRemoved
             \/ imKind = "wix" /\ imEdition = 1

Own(a) == [how |-> "whole", of |-> Imports!SourceOf(a)]

Good(a) == Exempt(a) \/ imFiles[Imports!NameOf(a)] = Own(a)

InOrder ==
    /\ imState.completed \subseteq imRun.completed
    /\ \A a \in imRun.completed :
         /\ Good(a)
         /\ a \in imRun.known \/ a < imRun.next \/ (imRun.at = "note" /\ a = imRun.next)

ImportInv ==
    /\ Imports!TypeOK
    /\ \A a \in imState.completed : Good(a)
    /\ imRun.at = "note" => imKind = "wix" /\ imRun.next <= ImLast
    /\ imRun.at \in {"media", "note"} => InOrder

FileValues == [how : {"none", "part", "whole"}, of : Imports!Sources]
States     == [completed : SUBSET Imports!Assets, failed : SUBSET Imports!Assets]

LEMMA ImportDefaults ==
    /\ Imports!NoFile \in FileValues /\ Imports!Empty \in States
    /\ \A at \in {"idle", "apply"} : /\ [Imports!Idle EXCEPT !.at = at] \in Imports!Run
                                     /\ [Imports!Idle EXCEPT !.at = at].at = at
    /\ Imports!Idle \in Imports!Run /\ Imports!Idle.at = "idle"
    /\ Imports!Empty.completed = {}
BY ImportsAssumption DEF Imports!NoFile, Imports!Empty, Imports!Idle, Imports!Run,
     FileValues, States, Imports!Sources, Imports!Assets

\* The name and the source of an attachment.
LEMMA AssetTyped ==
    ASSUME imKind \in {"wordpress", "wix"}, imEdition \in {0, 1}, NEW a \in Imports!Assets
    PROVE  /\ Imports!NameOf(a) \in ImNames /\ Imports!SourceOf(a) \in Imports!Sources
           /\ Own(a) \in FileValues
           /\ [how |-> "part", of |-> Imports!SourceOf(a)] \in FileValues
           /\ [how |-> "part", of |-> Imports!SourceOf(a)] # Own(a)
<1>1. Imports!NameOf(a) \in ImNames
  BY ImportsAssumption DEF Imports!NameOf, Imports!Assets
<1>2. Imports!SourceOf(a) \in Imports!Sources
  BY ImportsAssumption DEF Imports!SourceOf, Imports!Assets, Imports!Sources
<1> QED
  BY <1>1, <1>2 DEF Own, FileValues

\* Two attachments of one name are WordPress's, and exempt.
LEMMA OneName ==
    ASSUME imKind \in {"wordpress", "wix"}, NEW a \in Imports!Assets, NEW b \in Imports!Assets,
           a # b, Imports!NameOf(a) = Imports!NameOf(b)
    PROVE  Exempt(a)
BY DEF Imports!NameOf, Exempt, Imports!Shared

LEMMA ImportInit == Imports!Init => ImportInv
<1> SUFFICES ASSUME Imports!Init PROVE ImportInv
  OBVIOUS
<1>1. imFiles \in [ImNames -> FileValues] /\ imState \in States /\ imRun \in Imports!Run
  BY ImportDefaults DEF Imports!Init
<1>2. imRows \in [Imports!Assets -> {"none", "url", "file"}] /\ imRuns \in 0..ImMaxRun
  BY ImportsAssumption DEF Imports!Init
<1>3. Imports!TypeOK
  BY <1>1, <1>2 DEF Imports!Init, Imports!TypeOK, FileValues, States
<1> QED
  BY <1>3, ImportDefaults DEF ImportInv, Imports!Init

\* What an asset whose turn it is, and that is not skipped, holds already is not its own.
LEMMA TurnIsExempt ==
    ASSUME ImportInv, Imports!InTurn, ~Imports!Skips(Imports!Current),
           Imports!Current \in imRun.completed
    PROVE  Exempt(Imports!Current)
<1>1. imRun.at = "media" /\ imRun.next \in Nat /\ imRun.next <= ImLast /\ InOrder
  BY ImportsAssumption DEF ImportInv, Imports!InTurn, Imports!TypeOK, Imports!Run
<1>2. Imports!Current \in imRun.known
  BY <1>1 DEF InOrder, Imports!Current
<1>3. imFiles[Imports!NameOf(Imports!Current)].how = "none"
  BY <1>2 DEF Imports!Skips, Imports!Here
<1>4. Good(Imports!Current)
  BY <1>1 DEF InOrder
<1> QED
  BY <1>3, <1>4 DEF Good, Own

\* A step that leaves the directory and the export alone.
LEMMA GoodStays ==
    ASSUME UNCHANGED <<imKind, imEdition, imFiles, imRemoved>>
    PROVE  \A a : Good(a)' <=> Good(a)
BY DEF Good, Own, Exempt, Imports!Shared, Imports!NameOf, Imports!SourceOf, Imports!Assets

\* What a file is overwritten with concerns its own attachment only.
LEMMA OthersStay ==
    ASSUME ImportInv, NEW c \in Imports!Assets, NEW x \in FileValues,
           imFiles' = [imFiles EXCEPT ![Imports!NameOf(c)] = x],
           UNCHANGED <<imKind, imEdition, imRemoved>>
    PROVE  /\ imFiles' \in [ImNames -> FileValues]
           /\ \A a \in Imports!Assets : Good(a) /\ a # c => Good(a)'
           /\ Exempt(c) \/ x = Own(c) => Good(c)'
<1>1. Imports!TypeOK /\ imFiles \in [ImNames -> FileValues]
  BY DEF ImportInv, Imports!TypeOK, FileValues
<1>2. \A a \in Imports!Assets : /\ Exempt(a)' <=> Exempt(a)
                                /\ Own(a)' = Own(a)
                                /\ Imports!NameOf(a)' = Imports!NameOf(a)
  BY DEF Exempt, Own, Imports!Shared, Imports!NameOf, Imports!SourceOf, Imports!Assets
<1>3. ASSUME NEW a \in Imports!Assets, Good(a), a # c
      PROVE  Good(a)'
  <2>1. CASE Exempt(a)
    BY <1>2, <2>1 DEF Good
  <2>2. CASE ~Exempt(a)
    <3>1. Imports!NameOf(a) # Imports!NameOf(c)
      BY <1>1, <1>3, <2>2, OneName DEF Imports!TypeOK
    <3>2. Imports!NameOf(a) \in ImNames
      BY <1>1, AssetTyped DEF Imports!TypeOK
    <3>3. imFiles'[Imports!NameOf(a)'] = Own(a)'
      BY <1>1, <1>2, <1>3, <2>2, <3>1, <3>2 DEF Good
    <3> QED
      BY <3>3 DEF Good
  <2> QED
    BY <2>1, <2>2
<1>4. ASSUME x = Own(c)
      PROVE  Good(c)'
  <2>1. Imports!NameOf(c) \in ImNames
    BY <1>1, AssetTyped DEF Imports!TypeOK
  <2>2. imFiles'[Imports!NameOf(c)'] = Own(c)'
    BY <1>1, <1>2, <1>4, <2>1
  <2> QED
    BY <2>2 DEF Good
<1>5. Exempt(c) => Good(c)'
  BY <1>2 DEF Good
<1> QED
  BY <1>1, <1>3, <1>4, <1>5

\* The attachment whose turn it is, and what its turn leaves of what is completed.
LEMMA InItsTurn ==
    ASSUME ImportInv, Imports!InTurn
    PROVE  /\ imRun.next \in Imports!Assets /\ imRun.next + 1 \in 1..(ImLast + 1)
           /\ imRun.at = "media" /\ InOrder /\ imRun.completed \subseteq Imports!Assets
BY ImportsAssumption DEF ImportInv, Imports!InTurn, Imports!TypeOK, Imports!Run, Imports!Assets

LEMMA TurnKeeps ==
    ASSUME ImportInv, Imports!InTurn, ~Imports!Skips(Imports!Current),
           NEW c \in Imports!Assets, c = imRun.next, NEW x \in FileValues,
           imFiles' = [imFiles EXCEPT ![Imports!NameOf(c)] = x] \/ UNCHANGED imFiles,
           UNCHANGED <<imKind, imEdition, imRemoved>>
    PROVE  /\ imFiles' \in [ImNames -> FileValues]
           /\ \A a \in imRun.completed : Good(a)'
           /\ \A a \in imState.completed : Good(a)'
<1>1. /\ InOrder /\ imRun.completed \subseteq Imports!Assets
      /\ imFiles \in [ImNames -> FileValues]
  BY InItsTurn DEF ImportInv, Imports!TypeOK, FileValues
<1>2. \A a \in imRun.completed : Good(a) /\ a \in Imports!Assets
  BY <1>1 DEF InOrder
<1>3. c \in imRun.completed => Exempt(c)
  BY TurnIsExempt DEF Imports!Current
<1>4. \A a \in imRun.completed : Good(a)'
  <2>1. CASE UNCHANGED imFiles
    BY <1>2, <2>1, GoodStays
  <2>2. CASE imFiles' = [imFiles EXCEPT ![Imports!NameOf(c)] = x]
    <3> SUFFICES ASSUME NEW a \in imRun.completed
                 PROVE  Good(a)'
      OBVIOUS
    <3>1. CASE a = c
      BY <1>3, <2>2, <3>1, OthersStay
    <3>2. CASE a # c
      BY <1>2, <2>2, <3>2, OthersStay
    <3> QED
      BY <3>1, <3>2
  <2> QED
    BY <2>1, <2>2
<1>5. \A a \in imState.completed : Good(a)'
  BY <1>1, <1>4 DEF InOrder
<1>6. imFiles' \in [ImNames -> FileValues]
  BY <1>1, OthersStay
<1> QED
  BY <1>4, <1>5, <1>6

\* Proceed: on Wix the state file is next.
LEMMA ProceedFits ==
    ASSUME ImportInv, Imports!InTurn, NEW q \in Imports!Run,
           q.at = "media", q.next = imRun.next, q.known = imRun.known,
           q.completed = imRun.completed \/ q.completed = imRun.completed \cup {imRun.next},
           \A a \in q.completed : Good(a)',
           imRun' = Imports!Proceed(q), UNCHANGED <<imKind, imState>>
    PROVE  /\ imRun' \in Imports!Run
           /\ imRun'.at = "note" => imKind' = "wix" /\ imRun'.next <= ImLast
           /\ InOrder'
<1>1. /\ imRun.next \in Imports!Assets /\ imRun.next + 1 \in 1..(ImLast + 1) /\ InOrder
      /\ imRun.next <= ImLast /\ imRun.at = "media" /\ imRun.completed \subseteq Imports!Assets
  BY InItsTurn DEF Imports!InTurn
<1>2. /\ imRun' \in Imports!Run
      /\ imRun'.completed = q.completed /\ imRun'.known = imRun.known
      /\ \/ imRun'.at = "note" /\ imKind = "wix" /\ imRun'.next = imRun.next
         \/ imRun'.at = "media" /\ imRun'.next = imRun.next + 1
  BY <1>1 DEF Imports!Proceed, Imports!Run
<1>3. imState'.completed \subseteq imRun'.completed
  BY <1>1, <1>2 DEF InOrder
<1>4. \A a \in imRun'.completed :
        a \in imRun'.known \/ a < imRun'.next \/ (imRun'.at = "note" /\ a = imRun'.next)
  BY <1>1, <1>2, ImportsAssumption DEF InOrder, Imports!Assets
<1>5. InOrder'
  BY <1>2, <1>3, <1>4 DEF InOrder
<1> QED
  BY <1>1, <1>2, <1>5

LEMMA ImportSkip ==
    ASSUME ImportInv, Imports!Skip
    PROVE  ImportInv'
<1>1. Imports!InTurn
  BY DEF Imports!Skip
<1>2. /\ imRun' \in Imports!Run /\ imRun'.next = imRun.next + 1 /\ imRun'.at = "media"
      /\ imRun'.completed = imRun.completed /\ imRun'.known = imRun.known
  BY <1>1, InItsTurn DEF Imports!Skip, ImportInv, Imports!TypeOK, Imports!Run
<1>3. InOrder'
  BY <1>1, <1>2, InItsTurn, GoodStays, ImportsAssumption
     DEF Imports!Skip, InOrder, Imports!Assets
<1>4. Imports!TypeOK'
  BY <1>2 DEF Imports!Skip, ImportInv, Imports!TypeOK
<1> QED
  BY <1>2, <1>3, <1>4, GoodStays DEF ImportInv, Imports!Skip

LEMMA ImportDownload ==
    ASSUME ImportInv, Imports!Download
    PROVE  ImportInv'
<1>1. PICK c \in Imports!Assets : c = imRun.next
  BY InItsTurn DEF Imports!Download
<1>2. /\ Imports!InTurn /\ ~Imports!Skips(Imports!Current)
      /\ UNCHANGED <<imKind, imEdition, imRemoved>>
      /\ imFiles' = [imFiles EXCEPT ![Imports!NameOf(c)] = Own(c)]
  BY <1>1 DEF Imports!Download, Imports!Current, Own
<1>3. Own(c) \in FileValues
  BY AssetTyped DEF ImportInv, Imports!TypeOK
<1>4. Good(c)'
  BY <1>2, <1>3, OthersStay
<1>5. /\ imFiles' \in [ImNames -> FileValues]
      /\ \A a \in imRun.completed : Good(a)'
      /\ \A a \in imState.completed : Good(a)'
  BY <1>1, <1>2, <1>3, TurnKeeps
<1> DEFINE q == [imRun EXCEPT !.completed = @ \cup {c}]
<1>6. /\ q \in Imports!Run /\ q.at = "media" /\ q.next = imRun.next /\ q.known = imRun.known
      /\ q.completed = imRun.completed \cup {imRun.next}
      /\ \A a \in q.completed : Good(a)'
  <2>1. imRun \in Imports!Run /\ imRun.at = "media"
    BY DEF ImportInv, Imports!TypeOK, Imports!Download, Imports!InTurn
  <2>2. q.completed = imRun.completed \cup {c}
    BY <2>1 DEF Imports!Run
  <2>3. q \in Imports!Run /\ q.at = "media" /\ q.next = imRun.next /\ q.known = imRun.known
    BY <2>1 DEF Imports!Run
  <2> QED
    BY <1>1, <1>4, <1>5, <2>2, <2>3
<1>7. imRun' = Imports!Proceed(q)
  BY <1>1 DEF Imports!Download, Imports!Current
<1> HIDE DEF q
<1>8. /\ imRun' \in Imports!Run
      /\ imRun'.at = "note" => imKind' = "wix" /\ imRun'.next <= ImLast
      /\ InOrder'
  BY <1>2, <1>6, <1>7, ProceedFits DEF Imports!Download
<1>9. Imports!TypeOK'
  BY <1>5, <1>8 DEF Imports!Download, ImportInv, Imports!TypeOK, FileValues
<1> QED
  BY <1>5, <1>8, <1>9 DEF ImportInv, Imports!Download

LEMMA ImportFail ==
    ASSUME ImportInv, Imports!Fail
    PROVE  ImportInv'
<1>1. PICK c \in Imports!Assets : c = imRun.next
  BY InItsTurn DEF Imports!Fail
<1> DEFINE x == [how |-> "part", of |-> Imports!SourceOf(c)]
<1>2. /\ Imports!InTurn /\ ~Imports!Skips(Imports!Current)
      /\ UNCHANGED <<imKind, imEdition, imRemoved>>
      /\ imFiles' = [imFiles EXCEPT ![Imports!NameOf(c)] = x] \/ UNCHANGED imFiles
  BY <1>1 DEF Imports!Fail, Imports!Current
<1>3. x \in FileValues
  BY AssetTyped DEF ImportInv, Imports!TypeOK
<1>4. /\ imFiles' \in [ImNames -> FileValues]
      /\ \A a \in imRun.completed : Good(a)'
      /\ \A a \in imState.completed : Good(a)'
  BY <1>1, <1>2, <1>3, TurnKeeps
<1> DEFINE q == [imRun EXCEPT !.failed = @ \cup {c}]
<1>5. /\ q \in Imports!Run /\ q.at = "media" /\ q.next = imRun.next /\ q.known = imRun.known
      /\ q.completed = imRun.completed
      /\ \A a \in q.completed : Good(a)'
  <2>1. imRun \in Imports!Run /\ imRun.at = "media"
    BY DEF ImportInv, Imports!TypeOK, Imports!Fail, Imports!InTurn
  <2>2. /\ q \in Imports!Run /\ q.at = "media" /\ q.next = imRun.next /\ q.known = imRun.known
        /\ q.completed = imRun.completed
    BY <2>1 DEF Imports!Run
  <2> QED
    BY <1>4, <2>2
<1>6. imRun' = Imports!Proceed(q)
  BY <1>1 DEF Imports!Fail, Imports!Current
<1> HIDE DEF q
<1>7. /\ imRun' \in Imports!Run
      /\ imRun'.at = "note" => imKind' = "wix" /\ imRun'.next <= ImLast
      /\ InOrder'
  BY <1>2, <1>5, <1>6, ProceedFits DEF Imports!Fail
<1>8. Imports!TypeOK'
  BY <1>4, <1>7 DEF Imports!Fail, ImportInv, Imports!TypeOK, FileValues
<1> QED
  BY <1>4, <1>7, <1>8 DEF ImportInv, Imports!Fail

\* The importer is killed in the middle of a file.
LEMMA ImportKillInFile ==
    ASSUME ImportInv, Imports!KillInFile
    PROVE  ImportInv'
<1>1. PICK c \in Imports!Assets : c = imRun.next
  BY InItsTurn DEF Imports!KillInFile
<1> DEFINE x == [how |-> "part", of |-> Imports!SourceOf(c)]
<1>2. /\ Imports!InTurn /\ ~Imports!Skips(Imports!Current)
      /\ UNCHANGED <<imKind, imEdition, imRemoved>>
      /\ imFiles' = [imFiles EXCEPT ![Imports!NameOf(c)] = x]
  BY <1>1 DEF Imports!KillInFile, Imports!Current
<1>3. x \in FileValues
  BY AssetTyped DEF ImportInv, Imports!TypeOK
<1>4. imFiles' \in [ImNames -> FileValues] /\ \A a \in imState.completed : Good(a)'
  BY <1>1, <1>2, <1>3, TurnKeeps
<1>5. Imports!TypeOK'
  BY <1>4, ImportDefaults DEF Imports!KillInFile, ImportInv, Imports!TypeOK, FileValues
<1> QED
  BY <1>4, <1>5, ImportDefaults DEF ImportInv, Imports!KillInFile

\* A run begins.
LEMMA ImportStart ==
    ASSUME ImportInv, Imports!Start \/ Imports!StartWithoutMedia
    PROVE  ImportInv'
<1>1. Imports!TypeOK /\ imRuns \in Nat /\ imState \in States
  BY ImportsAssumption DEF ImportInv, Imports!TypeOK, States
<1>2. CASE Imports!Start
  <2>1. /\ imRun' \in Imports!Run /\ imRun'.at = "media"
        /\ imRun'.completed = imState.completed /\ imRun'.known = imState.completed
    BY <1>1, <1>2, ImportsAssumption DEF Imports!Start, Imports!Run, States
  <2>2. imRuns' \in 0..ImMaxRun
    BY <1>1, <1>2, ImportsAssumption DEF Imports!Start, Imports!TypeOK
  <2>3. Imports!TypeOK'
    BY <1>1, <1>2, <2>1, <2>2 DEF Imports!Start, Imports!TypeOK
  <2>4. \A a \in imState'.completed : Good(a)'
    BY <1>2, GoodStays DEF Imports!Start, ImportInv
  <2>5. InOrder'
    BY <1>2, <2>1, <2>4 DEF Imports!Start, InOrder
  <2> QED
    BY <2>1, <2>3, <2>4, <2>5 DEF ImportInv
<1>3. CASE Imports!StartWithoutMedia
  <2>1. imRun' \in Imports!Run /\ imRun'.at \in {"idle", "apply"}
    BY <1>3, ImportDefaults DEF Imports!StartWithoutMedia
  <2>2. imRuns' \in 0..ImMaxRun
    BY <1>1, <1>3, ImportsAssumption DEF Imports!StartWithoutMedia, Imports!TypeOK
  <2>3. imState' \in States /\ imState'.completed \subseteq imState.completed
    BY <1>1, <1>3, ImportDefaults DEF Imports!StartWithoutMedia
  <2>4. Imports!TypeOK'
    BY <1>1, <1>3, <2>1, <2>2, <2>3 DEF Imports!StartWithoutMedia, Imports!TypeOK, States
  <2>5. \A a \in imState'.completed : Good(a)'
    BY <1>3, <2>3, GoodStays DEF Imports!StartWithoutMedia, ImportInv
  <2> QED
    BY <2>1, <2>4, <2>5 DEF ImportInv
<1> QED
  BY <1>2, <1>3

\* The state file is written, or is cut off and reads as empty.
LEMMA ImportWritesState ==
    ASSUME ImportInv, Imports!Note \/ Imports!Finish \/ Imports!KillInState
    PROVE  ImportInv'
<1>1. Imports!TypeOK /\ imState \in States /\ imRun \in Imports!Run
  BY DEF ImportInv, Imports!TypeOK, States
<1>2. \A a : Good(a)' <=> Good(a)
  BY GoodStays DEF Imports!Note, Imports!Finish, Imports!KillInState
<1>3. CASE Imports!Note
  <2>1. InOrder /\ imRun.next \in Nat /\ imRun.next + 1 \in 1..(ImLast + 1)
    BY <1>1, <1>3, ImportsAssumption DEF ImportInv, Imports!Note, Imports!Run
  <2>2. /\ imRun' \in Imports!Run /\ imRun'.at = "media" /\ imRun'.next = imRun.next + 1
        /\ imRun'.completed = imRun.completed /\ imRun'.known = imRun.known
    BY <1>1, <1>3, <2>1 DEF Imports!Note, Imports!Run
  <2>3. imState' \in States /\ imState'.completed = imRun.completed
    BY <1>1, <1>3 DEF Imports!Note, Imports!Run, States
  <2>4. imRun.completed \subseteq Nat
    BY <1>1, ImportsAssumption DEF Imports!Run, Imports!Assets
  <2>5. InOrder'
    BY <1>2, <2>1, <2>2, <2>3, <2>4 DEF InOrder
  <2>6. \A a \in imState'.completed : Good(a)'
    BY <1>2, <2>1, <2>3 DEF InOrder
  <2>7. Imports!TypeOK'
    BY <1>1, <1>3, <2>2, <2>3 DEF Imports!Note, Imports!TypeOK, States
  <2> QED
    BY <2>2, <2>5, <2>6, <2>7 DEF ImportInv
<1>4. CASE Imports!Finish
  <2>1. imRun' \in Imports!Run /\ imRun'.at \in {"idle", "apply"}
    BY <1>4, ImportDefaults DEF Imports!Finish
  <2>2. InOrder
    BY <1>4 DEF ImportInv, Imports!Finish
  <2>3. imState' \in States /\ \A a \in imState'.completed : Good(a)
    BY <1>1, <1>4, <2>2 DEF Imports!Finish, ImportInv, InOrder, Imports!Run, States
  <2>4. Imports!TypeOK'
    BY <1>1, <1>4, <2>1, <2>3 DEF Imports!Finish, Imports!TypeOK, States
  <2> QED
    BY <1>2, <2>1, <2>3, <2>4 DEF ImportInv
<1>5. CASE Imports!KillInState
  <2>1. imRun' \in Imports!Run /\ imRun'.at = "idle"
    BY <1>5, ImportDefaults DEF Imports!KillInState
  <2>2. imState' \in States /\ imState'.completed = {}
    BY <1>5, ImportDefaults DEF Imports!KillInState
  <2>3. Imports!TypeOK'
    BY <1>1, <1>5, <2>1, <2>2 DEF Imports!KillInState, Imports!TypeOK, States
  <2> QED
    BY <2>1, <2>2, <2>3 DEF ImportInv
<1> QED
  BY <1>3, <1>4, <1>5

\* What is between runs, or ends one, and leaves the state file alone.
LEMMA ImportBetween ==
    ASSUME ImportInv,
           \/ Imports!Apply \/ Imports!Kill \/ Imports!ExportAgain
           \/ \E n \in ImNames : Imports!RemoveFile(n)
    PROVE  ImportInv'
<1>1. Imports!TypeOK /\ imState' = imState
  BY DEF ImportInv, Imports!Apply, Imports!Kill, Imports!ExportAgain, Imports!RemoveFile
<1>2. imRun' \in Imports!Run /\ imRun'.at = "idle"
  BY <1>1, ImportDefaults DEF Imports!Apply, Imports!Kill, Imports!ExportAgain,
     Imports!RemoveFile, Imports!TypeOK
<1>3. Imports!TypeOK'
  <2>1. imFiles' \in [ImNames -> FileValues]
    BY <1>1, ImportDefaults DEF Imports!Apply, Imports!Kill, Imports!ExportAgain,
       Imports!RemoveFile, Imports!TypeOK, FileValues
  <2>2. imRows' \in [Imports!Assets -> {"none", "url", "file"}]
    BY <1>1 DEF Imports!Apply, Imports!Kill, Imports!ExportAgain, Imports!RemoveFile,
       Imports!TypeOK
  <2> QED
    BY <1>1, <1>2, <2>1, <2>2 DEF Imports!Apply, Imports!Kill, Imports!ExportAgain,
       Imports!RemoveFile, Imports!TypeOK, FileValues, Imports!Assets, Imports!Sources
<1>4. \A a \in imState.completed : Good(a)'
  <2>1. CASE Imports!Apply \/ Imports!Kill
    BY <2>1, GoodStays DEF Imports!Apply, Imports!Kill, ImportInv
  <2>2. CASE Imports!ExportAgain
    <3> SUFFICES ASSUME NEW a \in imState.completed
                 PROVE  Good(a)'
      OBVIOUS
    <3>1. CASE imKind = "wix"
      BY <2>2, <3>1 DEF Imports!ExportAgain, Good, Exempt
    <3>2. CASE imKind # "wix"
      BY <2>2, <3>2 DEF Imports!ExportAgain, ImportInv, Good, Exempt, Own, Imports!Shared,
         Imports!NameOf, Imports!SourceOf, Imports!Assets
    <3> QED
      BY <3>1, <3>2
  <2>3. ASSUME NEW n \in ImNames, Imports!RemoveFile(n)
        PROVE  \A a \in imState.completed : Good(a)'
    <3> SUFFICES ASSUME NEW a \in imState.completed
                 PROVE  Good(a)'
      OBVIOUS
    <3>1. /\ imFiles' = [imFiles EXCEPT ![n] = Imports!NoFile]
          /\ imRemoved' = imRemoved \cup {n}
          /\ imKind' = imKind /\ imEdition' = imEdition
      BY <2>3 DEF Imports!RemoveFile
    <3>2. /\ Exempt(a) => Exempt(a)'
          /\ Imports!NameOf(a) = n => Exempt(a)'
          /\ Own(a)' = Own(a) /\ Imports!NameOf(a)' = Imports!NameOf(a)
      BY <3>1 DEF Exempt, Own, Imports!Shared, Imports!NameOf, Imports!SourceOf, Imports!Assets
    <3>3. a \in Imports!Assets /\ Good(a) /\ imFiles \in [ImNames -> FileValues]
      BY <1>1 DEF ImportInv, Imports!TypeOK, FileValues
    <3>4. Imports!NameOf(a) \in ImNames
      BY <1>1, <3>3, AssetTyped DEF Imports!TypeOK
    <3>5. Imports!NameOf(a) # n => imFiles'[Imports!NameOf(a)'] = imFiles[Imports!NameOf(a)]
      BY <3>1, <3>2, <3>3, <3>4
    <3> QED
      BY <3>2, <3>3, <3>5 DEF Good
  <2> QED
    BY <2>1, <2>2, <2>3
<1> QED
  BY <1>1, <1>2, <1>3, <1>4 DEF ImportInv

LEMMA ImportPause ==
    ASSUME ImportInv, UNCHANGED imVars
    PROVE  ImportInv'
<1>1. UNCHANGED <<imKind, imEdition, imFiles, imState, imRows, imRun, imRuns, imRemoved>>
  BY DEF imVars
<1>2. Imports!TypeOK' <=> Imports!TypeOK
  BY <1>1 DEF Imports!TypeOK, Imports!Assets, Imports!Sources, Imports!Run
<1>3. InOrder' <=> InOrder
  BY <1>1, GoodStays DEF InOrder
<1> QED
  BY <1>1, <1>2, <1>3, GoodStays DEF ImportInv

LEMMA ImportStep == ImportInv /\ [Imports!Next]_imVars => ImportInv'
<1> SUFFICES ASSUME ImportInv, [Imports!Next]_imVars PROVE ImportInv'
  OBVIOUS
<1> QED
  BY ImportStart, ImportSkip, ImportDownload, ImportFail, ImportWritesState,
     ImportKillInFile, ImportBetween, ImportPause DEF Imports!Next

LEMMA ImportWhole == ImportInv => Imports!CompletedIsWhole
BY DEF ImportInv, Imports!CompletedIsWhole, Good, Exempt, Own

-----------------------------------------------------------------------------
(* All parts together *)

SiteInv == AccessProofs!AccessInv /\ MediaProofs!MediaInv /\ ImportInv /\ BackupsInv

\* What the whole does is, to each part, a step of its own or none.
LEMMA SiteMove ==
    ASSUME [SiteNext]_siteVars
    PROVE  /\ [Access!Next]_acVars /\ [Media!Next]_mdVars
           /\ [Imports!Next]_imVars /\ [Backups!Next]_bkVars
<1> USE DEF SiteNext, InContent, InAccess, InMedia, InImports, InBackups, siteVars
<1>1. [Access!Next]_acVars
  OBVIOUS
<1>2. [Media!Next]_mdVars
  OBVIOUS
<1>3. [Imports!Next]_imVars
  OBVIOUS
<1>4. [Backups!Next]_bkVars
  OBVIOUS
<1> QED
  BY <1>1, <1>2, <1>3, <1>4

\* The invariant of every part, whatever the others do: what each section proves of a
\* part's own steps holds of the site that runs them all.
THEOREM SiteHold == SiteSpec => []SiteInv
<1>1. SiteInit => SiteInv
  BY AccessPart, MediaPart, ImportInit, BackupsInit, BackupsAssumption DEF SiteInit, SiteInv
<1>2. SiteInv /\ [SiteNext]_siteVars => SiteInv'
  <2> SUFFICES ASSUME SiteInv, [SiteNext]_siteVars
               PROVE  SiteInv'
    OBVIOUS
  <2>1. AccessProofs!AccessInv'
    BY SiteMove, AccessPart DEF SiteInv
  <2>2. MediaProofs!MediaInv'
    BY SiteMove, MediaPart DEF SiteInv
  <2>3. ImportInv'
    BY SiteMove, ImportStep DEF SiteInv
  <2>4. BackupsInv'
    BY SiteMove, BackupsStep, BackupsAssumption DEF SiteInv
  <2> QED
    BY <2>1, <2>2, <2>3, <2>4 DEF SiteInv
<1> QED
  BY <1>1, <1>2, PTL DEF SiteSpec

\* The tables, directories, requests and runs of the parts are of their types.
THEOREM SiteTyped == SiteSpec => []SiteTypeOK
<1>1. SiteInv => SiteTypeOK
  BY AccessPart, MediaPart DEF SiteInv, SiteTypeOK, ImportInv, BackupsInv
<1> QED
  BY <1>1, SiteHold, PTL

\* access/evaluator.ts over d1-access-store.ts: what a request may do by a snapshot it
\* read in pieces, some policy allowed it while it loaded, and none denied throughout.
THEOREM AllowedWasGrantedHolds == SiteSpec => []AllowedWasGranted
<1>1. SiteInv => AllowedWasGranted
  BY AccessPart DEF SiteInv, AllowedWasGranted
<1> QED
  BY <1>1, SiteHold, PTL

\* What a request is refused was denied or not granted while it loaded, or its account
\* was not active.
THEOREM RefusedWithReasonHolds == SiteSpec => []RefusedWithReason
<1>1. SiteInv => RefusedWithReason
  BY AccessPart DEF SiteInv, RefusedWithReason
<1> QED
  BY <1>1, SiteHold, PTL

\* runtime-actions-media.ts, local-media-repository-factory.ts: a media row that is
\* listed names objects that are there, wherever uploads and deletes overlap or end.
THEOREM LiveRowHasFileHolds == SiteSpec => []LiveRowHasFile
<1>1. SiteInv => LiveRowHasFile
  BY MediaPart DEF SiteInv, LiveRowHasFile
<1> QED
  BY <1>1, SiteHold, PTL

\* import/wordpress.ts, import/wix.ts: what a resumed import skips is there, whole and
\* its own, for any number of attachments and runs, cut off anywhere: names that are
\* shared or were removed by hand apart, and Wix after the site was exported again.
THEOREM CompletedIsWholeHolds == SiteSpec => []CompletedIsWhole
<1>1. SiteInv => CompletedIsWhole
  BY ImportWhole DEF SiteInv, CompletedIsWhole
<1> QED
  BY <1>1, SiteHold, PTL

\* sync/git.ts: a restore that ends has made every entry of the list what the snapshot
\* holds, whatever was killed, refused or edited before.
THEOREM RestoreIsWhole == SiteSpec => RestoredIsSnapshot
<1>1. SiteInv /\ [SiteNext]_siteVars =>
        [Backups!EndImport =>
           \A e \in Backups!Included : bkProject[e] = bkSnap[e]]_(Backups!vars)
  BY BackupsWhole, BackupsAssumption DEF SiteInv
<1> QED
  BY <1>1, SiteHold, PTL DEF SiteSpec, RestoredIsSnapshot, Backups!RestoredIsSnapshot
=============================================================================

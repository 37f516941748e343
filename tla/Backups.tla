------------------------------- MODULE Backups -------------------------------
(***************************************************************************)
(* Backup and restore (sync/git.ts, behind `astropress backup' and         *)
(* `astropress restore'): the entries of a list are copied, one after the  *)
(* other, from the project into a snapshot directory that is emptied       *)
(* first, and back into a project whose entries are removed first.  The    *)
(* command may be killed anywhere, and the site goes on during a backup.   *)
(***************************************************************************)
EXTENDS Naturals, Sequences

CONSTANTS
    Entries,    \* files and directories of a project
    Include,    \* the ones that are copied, in order
    Database,   \* the entry that holds admin.sqlite
    MaxEdit     \* bound on changes to the project

VARIABLES
    project,
    snap,       \* the snapshot directory
    exported,   \* history: the last export into it has ended without an error
    op,         \* the command that is running
    edits

vars == <<project, snap, exported, op, edits>>

\* The list the command line uses.
DefaultEntries ==
    <<"package.json", "astro.config.mjs", "src", "public", "content", "db", "tests">>

\* What an entry holds: nothing, part of a copy, a copy that mixes two versions, a
\* version as a whole, or a database that fails its check.
Held == [how : {"none", "part", "mixed", "whole", "corrupt"}, v : 0..MaxEdit]
Nothing == [how |-> "none", v |-> 0]
Partial == [how |-> "part", v |-> 0]

\* dirty: the source of the copy under way has been changed meanwhile.
Command == [dir : {"none", "export", "import"}, at : {"idle", "remove", "enter", "copy"},
            next : 1..(Len(Include) + 1), dirty : BOOLEAN]
Idle == [dir |-> "none", at |-> "idle", next |-> 1, dirty |-> FALSE]

TypeOK ==
    /\ project \in [Entries -> Held]
    /\ snap \in [Entries -> Held]
    /\ exported \in BOOLEAN
    /\ op \in Command
    /\ edits \in 0..MaxEdit

Entry == Include[op.next]
More == op.next <= Len(Include)
Source == IF op.dir = "export" THEN project ELSE snap

-----------------------------------------------------------------------------
(* The commands *)

\* exportSnapshot: the target is emptied before anything is looked at.
BeginExport ==
    /\ op.at = "idle"
    /\ snap' = [e \in Entries |-> Nothing]
    /\ exported' = FALSE
    /\ op' = [Idle EXCEPT !.dir = "export", !.at = "enter"]
    /\ UNCHANGED <<project, edits>>

\* importSnapshot: any directory that exists will do.
BeginImport ==
    /\ op.at = "idle"
    /\ op' = [Idle EXCEPT !.dir = "import", !.at = "remove"]
    /\ UNCHANGED <<project, snap, exported, edits>>

\* Mutant: an entry is removed only if the snapshot has one to put in its place.
Remove_replaced ==
    /\ op.at = "remove" /\ More
    /\ project' = IF snap[Entry].how = "none" THEN project
                                              ELSE [project EXCEPT ![Entry] = Nothing]
    /\ op' = [op EXCEPT !.next = @ + 1]
    /\ UNCHANGED <<snap, exported, edits>>

\* All entries of the list are removed from the project ...
Remove ==
    /\ op.at = "remove" /\ More
    /\ project' = [project EXCEPT ![Entry] = Nothing]
    /\ op' = [op EXCEPT !.next = @ + 1]
    /\ UNCHANGED <<snap, exported, edits>>

\* ... before the first one is copied.
Removed ==
    /\ op.at = "remove" /\ ~More
    /\ op' = [op EXCEPT !.at = "enter", !.next = 1]
    /\ UNCHANGED <<project, snap, exported, edits>>

\* processIncludes: what the source does not have is passed over.
PassOver ==
    /\ op.at = "enter" /\ More /\ Source[Entry].how = "none"
    /\ op' = [op EXCEPT !.next = @ + 1]
    /\ UNCHANGED <<project, snap, exported, edits>>

Put(content) ==
    IF op.dir = "export"
      THEN snap' = [snap EXCEPT ![Entry] = content] /\ UNCHANGED project
      ELSE project' = [project EXCEPT ![Entry] = content] /\ UNCHANGED snap

\* copyTreeWithReflink enters an entry; a database that fails its check is copied on
\* export only if the check was unavailable, and on import with a warning.
Enter ==
    /\ op.at = "enter" /\ More /\ Source[Entry].how # "none"
    /\ Put(Partial)
    /\ op' = [op EXCEPT !.at = "copy", !.dirty = FALSE]
    /\ UNCHANGED <<exported, edits>>

\* "Refusing to back up corrupt SQLite database".
Refuse ==
    /\ op.at = "enter" /\ op.dir = "export" /\ More /\ Source[Entry].how = "corrupt"
    /\ op' = Idle
    /\ UNCHANGED <<project, snap, exported, edits>>

\* The copy of the entry ends; of a source that was written meanwhile it is neither
\* the version before nor the one after.
Copied ==
    /\ op.at = "copy"
    /\ Put(IF op.dirty THEN [Source[Entry] EXCEPT !.how = "mixed"] ELSE Source[Entry])
    /\ op' = [op EXCEPT !.at = "enter", !.next = @ + 1]
    /\ UNCHANGED <<exported, edits>>

\* A file that was listed is gone when its turn comes, as the -wal file of a server
\* that crashed is after the checkpoint: the copy fails.
CopyFails ==
    /\ op.at = "copy"
    /\ op' = Idle
    /\ UNCHANGED <<project, snap, exported, edits>>

EndExport ==
    /\ op.at = "enter" /\ op.dir = "export" /\ ~More
    /\ exported' = TRUE
    /\ op' = Idle
    /\ UNCHANGED <<project, snap, edits>>

EndImport ==
    /\ op.at = "enter" /\ op.dir = "import" /\ ~More
    /\ op' = Idle
    /\ UNCHANGED <<project, snap, exported, edits>>

Kill ==
    /\ op.at # "idle"
    /\ op' = Idle
    /\ UNCHANGED <<project, snap, exported, edits>>

-----------------------------------------------------------------------------
(* The project: the site is taken offline for a restore, as the runbook says *)

Edit(e) ==
    /\ op.dir # "import" /\ edits < MaxEdit
    /\ project[e].how \in {"none", "whole"}
    /\ edits' = edits + 1
    /\ project' = [project EXCEPT ![e] = [how |-> "whole", v |-> edits + 1]]
    /\ op' = [op EXCEPT !.dirty = @ \/ (op.at = "copy" /\ Entry = e)]
    /\ UNCHANGED <<snap, exported>>

\* The developer deletes a directory.
Drop(e) ==
    /\ op.dir # "import" /\ edits < MaxEdit
    /\ e # Database /\ project[e].how = "whole"
    /\ edits' = edits + 1
    /\ project' = [project EXCEPT ![e] = Nothing]
    /\ op' = [op EXCEPT !.dirty = @ \/ (op.at = "copy" /\ Entry = e)]
    /\ UNCHANGED <<snap, exported>>

Corrupt ==
    /\ op.at = "idle" /\ edits < MaxEdit
    /\ project[Database].how = "whole"
    /\ edits' = edits + 1
    /\ project' = [project EXCEPT ![Database].how = "corrupt"]
    /\ UNCHANGED <<snap, exported, op>>

Init ==
    /\ project = [e \in Entries |-> [how |-> "whole", v |-> 0]]
    /\ snap = [e \in Entries |-> Nothing]
    /\ exported = FALSE
    /\ op = Idle
    /\ edits = 0

Next ==
    \/ BeginExport \/ BeginImport \/ Remove \/ Removed
    \/ PassOver \/ Enter \/ Refuse \/ Copied \/ CopyFails
    \/ EndExport \/ EndImport \/ Kill
    \/ \E e \in Entries : Edit(e) \/ Drop(e)
    \/ Corrupt

Spec == Init /\ [][Next]_vars

-----------------------------------------------------------------------------
(* Properties *)

Included == {Include[i] : i \in 1..Len(Include)}

\* Whatever was cut off or refused before, a restore that ends has made the entries of
\* the list what the snapshot holds, those it does not hold included.
RestoredIsSnapshot ==
    [][EndImport => \A e \in Included : project[e] = snap[e]]_vars

\* "Local: SQLite file, RPO: last `astropress backup` snapshot": a backup that ends holds
\* the database, if the project has one that nobody wrote to since the site was set up.
BackupHoldsDatabase ==
    [][EndExport /\ project[Database] = [how |-> "whole", v |-> 0]
         => snap[Database] = project[Database]]_vars
=============================================================================

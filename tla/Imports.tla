------------------------------- MODULE Imports -------------------------------
(***************************************************************************)
(* The media of an import (import/wordpress.ts, import/wix.ts): attachments *)
(* are downloaded one after the other into one directory; a state file     *)
(* says which are done, so that a run that was cut off can be resumed; the *)
(* last step registers them in the local database, in one transaction.     *)
(***************************************************************************)
EXTENDS Naturals

CONSTANTS
    Last,       \* the number of attachments of an export, 1..Last
    Names,      \* file names in the directory
    WpName,     \* WordPress: the name of an attachment, the last part of its URL
    MaxRun      \* bound on runs

VARIABLES
    kind,       \* "wordpress" or "wix"
    edition,    \* 0, or 1: the site was exported again with an image more in front
    files,      \* downloads/: what each name holds
    state,      \* download-state.json; unreadable is empty, as its reader has it
    rows,       \* media_assets: where an attachment was registered
    run,        \* the run of the importer that is under way
    runs,
    removed     \* history: names somebody removed from the directory

vars == <<kind, edition, files, state, rows, run, runs, removed>>

Assets == 1..Last
Sources == 0..Last
NoFile == [how |-> "none", of |-> 0]
Empty == [completed |-> {}, failed |-> {}]

\* A WordPress attachment is known by its number in the export, for good; a Wix image
\* by its position, so that an image that was inserted shifts the others.
SourceOf(a) == IF kind = "wix" THEN a - edition ELSE a
NameOf(a) == IF kind = "wix" THEN a ELSE WpName[a]

\* next: the asset whose turn it is.  known: the assets the run found in the state file.
Run == [at : {"idle", "media", "note", "apply"}, next : 1..(Last + 1), known : SUBSET Assets,
        completed : SUBSET Assets, failed : SUBSET Assets]
Idle == [at |-> "idle", next |-> 1, known |-> {}, completed |-> {}, failed |-> {}]

TypeOK ==
    /\ kind \in {"wordpress", "wix"}
    /\ edition \in {0, 1}
    /\ files \in [Names -> [how : {"none", "part", "whole"}, of : Sources]]
    /\ state \in [completed : SUBSET Assets, failed : SUBSET Assets]
    /\ rows \in [Assets -> {"none", "url", "file"}]
    /\ run \in Run
    /\ runs \in 0..MaxRun
    /\ removed \subseteq Names

Here(a) == files[NameOf(a)].how # "none"
Current == run.next
InTurn == run.at = "media" /\ run.next <= Last

-----------------------------------------------------------------------------
(* A run *)

\* The records are staged.  Without --download-media WordPress starts the state file
\* anew; with it the state is read, whether --resume is given or not.
Start ==
    /\ run.at = "idle" /\ runs < MaxRun
    /\ runs' = runs + 1
    /\ run' = [at |-> "media", next |-> 1, known |-> state.completed,
               completed |-> state.completed, failed |-> state.failed]
    /\ UNCHANGED <<kind, edition, files, state, rows, removed>>

StartWithoutMedia ==
    /\ run.at = "idle" /\ runs < MaxRun
    /\ runs' = runs + 1
    /\ state' = IF kind = "wordpress" THEN Empty ELSE state
    /\ \E at \in {"idle", "apply"} : run' = [Idle EXCEPT !.at = at]
    /\ UNCHANGED <<kind, edition, files, rows, removed>>

\* What is skipped: completed, and on WordPress only if there is a file of that name.
Skips(a) == a \in run.known /\ (kind = "wordpress" => Here(a))

Skip ==
    /\ InTurn /\ Skips(Current)
    /\ run' = [run EXCEPT !.next = @ + 1]
    /\ UNCHANGED <<kind, edition, files, state, rows, runs, removed>>

\* After a download WordPress goes on; Wix writes the state file first.
Proceed(q) == IF kind = "wix" THEN [q EXCEPT !.at = "note"] ELSE [q EXCEPT !.next = @ + 1]

Download ==
    /\ InTurn /\ ~Skips(Current)
    /\ files' = [files EXCEPT ![NameOf(Current)] = [how |-> "whole", of |-> SourceOf(Current)]]
    /\ run' = Proceed([run EXCEPT !.completed = @ \cup {Current}])
    /\ UNCHANGED <<kind, edition, state, rows, runs, removed>>

\* Mutant: what has a file of its name is completed, although the download failed.
Fail_fileSuffices ==
    /\ InTurn /\ ~Skips(Current)
    /\ \/ UNCHANGED files
       \/ files' = [files EXCEPT ![NameOf(Current)] = [how |-> "part", of |-> SourceOf(Current)]]
    /\ run' = Proceed(IF files'[NameOf(Current)] # NoFile
                        THEN [run EXCEPT !.completed = @ \cup {Current}]
                        ELSE [run EXCEPT !.failed = @ \cup {Current}])
    /\ UNCHANGED <<kind, edition, state, rows, runs, removed>>

\* The source does not answer, or the disk is full in the middle of the file.
Fail ==
    /\ InTurn /\ ~Skips(Current)
    /\ \/ UNCHANGED files
       \/ files' = [files EXCEPT ![NameOf(Current)] = [how |-> "part", of |-> SourceOf(Current)]]
    /\ run' = Proceed([run EXCEPT !.failed = @ \cup {Current}])
    /\ UNCHANGED <<kind, edition, state, rows, runs, removed>>

\* Wix: the state so far, after each asset.
Note ==
    /\ run.at = "note"
    /\ state' = [completed |-> run.completed, failed |-> run.failed]
    /\ run' = [run EXCEPT !.at = "media", !.next = @ + 1]
    /\ UNCHANGED <<kind, edition, files, rows, runs, removed>>

\* The last asset is done: WordPress writes its state now.
Finish ==
    /\ run.at = "media" /\ run.next > Last
    /\ state' = IF kind = "wordpress" THEN [completed |-> run.completed, failed |-> run.failed]
                                      ELSE state
    /\ \E at \in {"idle", "apply"} : run' = [Idle EXCEPT !.at = at]
    /\ UNCHANGED <<kind, edition, files, rows, runs, removed>>

\* --apply-local: one transaction; an asset with a file is registered with it, others
\* with their URL.
Apply ==
    /\ run.at = "apply"
    /\ rows' = [a \in Assets |-> IF Here(a) THEN "file" ELSE "url"]
    /\ run' = Idle
    /\ UNCHANGED <<kind, edition, files, state, runs, removed>>

\* The importer is killed: between two steps, in the middle of a file, or in the middle
\* of the state file, which then cannot be read.  A transaction is rolled back.
Kill ==
    /\ run.at # "idle"
    /\ run' = Idle
    /\ UNCHANGED <<kind, edition, files, state, rows, runs, removed>>

KillInFile ==
    /\ InTurn /\ ~Skips(Current)
    /\ files' = [files EXCEPT ![NameOf(Current)] = [how |-> "part", of |-> SourceOf(Current)]]
    /\ run' = Idle
    /\ UNCHANGED <<kind, edition, state, rows, runs, removed>>

KillInState ==
    /\ run.at = "note" \/ (run.at = "media" /\ run.next > Last /\ kind = "wordpress")
    /\ state' = Empty
    /\ run' = Idle
    /\ UNCHANGED <<kind, edition, files, rows, runs, removed>>

-----------------------------------------------------------------------------
(* Between runs *)

RemoveFile(n) ==
    /\ run.at = "idle" /\ files[n].how # "none"
    /\ files' = [files EXCEPT ![n] = NoFile]
    /\ removed' = removed \cup {n}
    /\ UNCHANGED <<kind, edition, state, rows, run, runs>>

ExportAgain ==
    /\ run.at = "idle" /\ edition = 0
    /\ edition' = 1
    /\ UNCHANGED <<kind, files, state, rows, run, runs, removed>>

Init ==
    /\ kind \in {"wordpress", "wix"}
    /\ edition = 0
    /\ files = [n \in Names |-> NoFile]
    /\ state = Empty
    /\ rows = [a \in Assets |-> "none"]
    /\ run = Idle
    /\ runs = 0
    /\ removed = {}

Next ==
    \/ Start \/ StartWithoutMedia
    \/ Skip \/ Download \/ Fail \/ Note \/ Finish \/ Apply
    \/ Kill \/ KillInFile \/ KillInState
    \/ ExportAgain
    \/ \E n \in Names : RemoveFile(n)

Spec == Init /\ [][Next]_vars

-----------------------------------------------------------------------------
(* Properties *)

\* The names that two attachments of WordPress share: the later one is written over the
\* earlier, and both are completed.
Shared(n) == kind = "wordpress" /\ \E a, b \in Assets : a # b /\ NameOf(a) = n /\ NameOf(b) = n

\* "skipping already-completed assets": what the state file calls completed is there,
\* whole, and the attachment's own, whichever runs were cut off where; so a resumed run
\* skips nothing it should fetch.  Not for names that are shared or were removed by
\* hand, nor for Wix once the site was exported again.
CompletedIsWhole ==
    \A a \in state.completed :
        \/ Shared(NameOf(a))
        \/ NameOf(a) \in removed
        \/ kind = "wix" /\ edition = 1
        \/ files[NameOf(a)] = [how |-> "whole", of |-> SourceOf(a)]
=============================================================================
